---------------------------- MODULE Spec2Model ----------------------------
(***************************************************************************)
(* A model of the AST542 course material:                                  *)
(*   - the image-cutout shell script sdss_cut_out_1min.sh (src/README.md), *)
(*   - ProbModel / Model2 of the marginalization notebook                  *)
(*     (src/unnamed/part_000),                                             *)
(*   - the light-curve preparation cells and the Gaussian-process          *)
(*     ln_likelihood / ln_prior / ln_posterior of                          *)
(*     "src/notebooks/Gaussian processes - lecture notes.ipynb".           *)
(* Each part has its own specification (SpecScript, SpecProb, SpecMix,     *)
(* SpecGP, SpecGPLike, SpecClip); the variables of the other parts stay    *)
(* idle.                                                                   *)
(***************************************************************************)
EXTENDS Integers, Sequences, FiniteSets, TLC

VARIABLES
    \* ---- shell script ----
    argv,        \* the positional parameters $1 .. $#, each a sequence of characters
    shPc,        \* "start" | "wget" | "exited"
    cwd,         \* the working directory: the sorted names of its files
    useRA, useDEC, useOutFN,   \* the script's variables (empty while unset)
    stdout,      \* lines echoed by the script
    exitStatus,  \* -1 while running, else the exit status of the script
    requests,    \* the URLs wget was asked to fetch, one HTTP GET each, in order
    outFile,     \* the file wget writes the responses to (<<>>: no file)
    \* ---- ProbModel (marginalization notebook) ----
    pmPc,        \* "idle" | "prior" | "like" | "ret"
    pmEntry,     \* "ln_posterior" | "__call__": how the model object was called
    pmPrior,     \* what self.ln_prior(pars) returns for the parameter vector
    pmLike,      \* what self.ln_likelihood(pars) returns: one value per datum
    lnp,         \* ln_posterior's local lnp
    pmRet,       \* the value ln_posterior returned
    pmCallRet,   \* the value __call__ returned
    \* ---- Model2.ln_likelihood ----
    mixPc,       \* "idle" | "done"
    ll_in,       \* what ln_likelihood_inlier(pars) returns: None, or one
                 \* value per datum
    ll_out,      \* what ln_likelihood_outlier(pars) returns, likewise
    mixRet,      \* the value Model2.ln_likelihood returned, or TypeError
    \* ---- Gaussian-process notebook: ln_prior, ln_posterior, ln_posterior2 ----
    gpPc,        \* "idle" | "prior" | "like" | "done"
    gpFn,        \* "ln_posterior" | "ln_posterior2": the function called
    gpPars,      \* the parameter vector (f_0, ln_a, ln_b) of the call
    lp,          \* the local lp
    ll,          \* the local ll
    gpRet,       \* the value the function returned
    \* ---- Gaussian-process notebook: ln_likelihood ----
    likePc,      \* "idle" | "done"
    likeArgs,    \* the arguments of the call: pars, t, flux, flux_err
    likeRet,     \* the expression whose value ln_likelihood returned
    \* ---- Gaussian-process notebook: the light-curve cells ----
    lcPc,        \* "loaded" | "filtered" | "stats" | "clipped" | "error" | "idle"
    table,       \* the rows of k2.fits as read by fits.getdata
    data,        \* the notebook's variable data
    raw_time, raw_flux, raw_flux_err,
    stats,       \* med and robust_std
    idx,         \* the clip mask, one Boolean per element of raw_flux
    time, flux, flux_err,
    \* ---- a notebook session: calls of the probability functions ----
    nb,          \* "marginalization" | "gp" | "none": the notebook being run
    model1,      \* the ProbModel object's attributes x, y, y_err
    subclass,    \* what Model1's ln_prior and ln_likelihood return, per
                 \* parameter vector: None as they stand, else what they
                 \* compute from the stored data
    sesCall,     \* the last call: <<function, pars>>  (<<>>: none yet)
    sesRet,      \* <<the value it returned>>
    sesKept,     \* an earlier call kept for comparison: <<function, pars, value,
                 \* number of calls since (2: two or more), was one of them
                 \* another function or parameter vector>>   (<<>>: none)
    \* ---- the sampling cells (emcee.EnsembleSampler) ----
    smpPc,       \* "made" | "burned" | "reset" | "produced" | "error" | "idle"
    sampler,     \* the sampler object: which one, n_walkers, whether its
                 \* log-probability function returns, its stored chain
    p0,          \* the initial walker positions (sample_ball)
    pos,         \* the notebook's variable pos  (-1: not assigned), which
                 \* the two sampling cells of a notebook share
    \* ---- PCA notebook: the covariance eigen-decomposition cells ----
    pcaPc,       \* "loaded" | "eig" | "projected" | "cev" | "idle"
    X,           \* the data, one row per object, one column per feature
    eig_vals,    \* the eigenvalues as np.linalg.eig returned them
    eig_vecs,    \* the eigenvectors: column j belongs to eig_vals[j]
    sort_idx,    \* the notebook's idx = eig_vals.argsort()
    Y,           \* the projected data
    cev,         \* the cumulative explained variance: numerators and denominator
    \* ---- PCA notebook: the eigenfaces cells ----
    facePc,      \* "start" | "fitted" | "counted" | "idle"
    pca,         \* the notebook's global pca: its n_components, what it was
                 \* fitted on and its explained_variance_ratio_
    n95,         \* the displayed value of the argmin cell  (-1: none)
    \* ---- marginalization notebook: the outlier cells of case 2 ----
    outPc,       \* "sampling" | "ready" | "half" | "averaged" | "classified" |
                 \* "plotted" | "error" | "idle"
    tbl2,        \* the rows of case2.csv, each named by its number
    half_shown,  \* the displayed value of sampler.flatchain.shape[0]//2
    loop_i,      \* the loop variable i: the last row of flatchain read
    post_prob,   \* one value per row of tbl2, in quarters
    outlier_idx, \* one Boolean per row of tbl2
    plotted,     \* the rows drawn by the two errorbar calls
    \* ---- PCA notebook: the cells after the eigenfaces cells ----
    skyPc,       \* "ready" | "stacked" | "reconstructed" | "compressed" |
                 \* "loaded" | "todo1" | "todo2" | "plotted" | "idle"
    all_face_data, \* the arrays stacked into it  (<<>>: not assigned)
    titles,      \* the titles of do_pca's figures: pca.n_components each
    fits,        \* the fit calls of these cells, in order: the components
                 \* asked for, the data passed, the scope of the name pca
    sdss_images, \* what the name is bound to  ("": not assigned)
    sky_plot     \* the curve drawn by the last plot cell  (<<>>: none)

shVars == <<argv, cwd, shPc, useRA, useDEC, useOutFN, stdout, exitStatus, requests, outFile>>
pmVars == <<pmPc, pmEntry, pmPrior, pmLike, lnp, pmRet, pmCallRet>>
mixVars == <<mixPc, ll_in, ll_out, mixRet>>
gpVars == <<gpPc, gpFn, gpPars, lp, ll, gpRet>>
likeVars == <<likePc, likeArgs, likeRet>>
lcVars == <<lcPc, table, data, raw_time, raw_flux, raw_flux_err, stats, idx,
            time, flux, flux_err>>
sesVars == <<nb, model1, subclass, sesCall, sesRet, sesKept>>
smpVars == <<smpPc, sampler, p0, pos>>
pcaVars == <<pcaPc, X, eig_vals, eig_vecs, sort_idx, Y, cev>>
faceVars == <<facePc, pca, n95>>
outVars == <<outPc, tbl2, half_shown, loop_i, post_prob, outlier_idx, plotted>>
skyVars == <<skyPc, all_face_data, titles, fits, sdss_images, sky_plot>>

vars == <<shVars, pmVars, mixVars, gpVars, likeVars, lcVars, sesVars, smpVars,
          pcaVars, faceVars, outVars, skyVars>>

\* what a step of one part leaves alone: the variables of the other parts
notSh ==
    <<pmVars, mixVars, gpVars, likeVars, lcVars, sesVars, smpVars, pcaVars,
      faceVars, outVars, skyVars>>
notPm ==
    <<shVars, mixVars, gpVars, likeVars, lcVars, sesVars, smpVars, pcaVars,
      faceVars, outVars, skyVars>>
notMix ==
    <<shVars, pmVars, gpVars, likeVars, lcVars, sesVars, smpVars, pcaVars,
      faceVars, outVars, skyVars>>
notGp ==
    <<shVars, pmVars, mixVars, likeVars, lcVars, sesVars, smpVars, pcaVars,
      faceVars, outVars, skyVars>>
notLike ==
    <<shVars, pmVars, mixVars, gpVars, lcVars, sesVars, smpVars, pcaVars,
      faceVars, outVars, skyVars>>
notLc ==
    <<shVars, pmVars, mixVars, gpVars, likeVars, sesVars, smpVars, pcaVars,
      faceVars, outVars, skyVars>>
notSes ==
    <<shVars, pmVars, mixVars, gpVars, likeVars, smpVars, pcaVars, faceVars,
      outVars, skyVars>>
notSmp ==
    <<shVars, pmVars, mixVars, gpVars, likeVars, lcVars, sesVars, pcaVars,
      faceVars, outVars, skyVars>>
notPca ==
    <<shVars, pmVars, mixVars, gpVars, likeVars, lcVars, sesVars, smpVars,
      faceVars, outVars, skyVars>>
notFace ==
    <<shVars, pmVars, mixVars, gpVars, likeVars, lcVars, sesVars, smpVars,
      pcaVars, outVars, skyVars>>
notOut ==
    <<shVars, pmVars, mixVars, gpVars, likeVars, lcVars, sesVars, pcaVars,
      faceVars, skyVars>>
notSky ==
    <<shVars, pmVars, mixVars, gpVars, likeVars, lcVars, sesVars, smpVars,
      pcaVars, outVars>>

---------------------------------------------------------------------------
(***************************************************************************)
(* Bounds of the model.                                                    *)
(***************************************************************************)
MaxArgs == 4      \* the script is invoked with 0 .. MaxArgs arguments
MaxArgLen == 1    \* each argument has 0 .. MaxArgLen characters
FMax == 2         \* largest finite magnitude of the model's floats
MaxData == 2      \* number of data points of a ProbModel: 0 .. MaxData
MaxLik == 3       \* per-datum likelihoods of the mixture, in halves: 1 .. MaxLik
Margin == 1       \* prior parameters are taken within Margin of each prior bound
MaxN == 2         \* number of points of a light curve given to ln_likelihood
MaxVal == 1       \* times, fluxes and f_0 given to ln_likelihood: 0 .. MaxVal
MaxRows == 3      \* short light-curve tables have 0 .. MaxRows rows
LongLen == 513    \* long tables have LongLen further rows
MaxSesRows == 2   \* tables of a session of calls have 0 .. MaxSesRows rows
MaxPos == 2       \* walker ensembles are told apart by a number 0 .. MaxPos
MaxAmp == 3       \* the spread of the data along a feature: 1 .. MaxAmp
MaxComp == 3      \* a fitted PCA has 1 .. MaxComp components
MaxSkyComp == 2   \* the PCA fitted on all_face_data: 1 .. MaxSkyComp

---------------------------------------------------------------------------
(***************************************************************************)
(* Sequence helpers.                                                       *)
(***************************************************************************)
SeqsUpTo(S, n) == UNION { [1..k -> S] : k \in 0..n }

---------------------------------------------------------------------------
(***************************************************************************)
(* sdss_cut_out_1min.sh                                                    *)
(*                                                                         *)
(* Characters: "7" is an ordinary character, " " a blank (a character of   *)
(* IFS), "*" and "?" the pattern characters of pathname expansion, "-" the *)
(* dash that starts an option of wget.  The three quoted pieces of the URL *)
(* are the tokens "URL?ra=", "&dec=" and "&scale..."; quoted text is       *)
(* neither split nor taken as a pattern.  wget is the installed program,   *)
(* not part of the repository: of its behaviour the model keeps the        *)
(* reading of -O, of URLs and of options, and the exit status.             *)
(***************************************************************************)
ArgChars == {"7", " ", "*"}

\* arguments with a "?", a lone dash and a blank followed by an option
ExtraArgs == { <<"?">>, <<"-">>, <<"7", " ", "-", "7">> }

Args == SeqsUpTo(ArgChars, MaxArgLen) \cup ExtraArgs

\* the names of the files that may lie in the working directory, in the
\* order in which the shell sorts them
FileNames == << <<"7">>, <<"7", "7">> >>

\* the elements of seq at the positions in S, in order
RECURSIVE Pick(_, _, _)
Pick(seq, S, i) ==
    IF i > Len(seq) THEN <<>>
    ELSE (IF i \in S THEN <<seq[i]>> ELSE <<>>) \o Pick(seq, S, i + 1)

SubSeqs(seq) == { Pick(seq, S, 1) : S \in SUBSET (1..Len(seq)) }

\* the working directory: the sorted names of its files
Dirs == SubSeqs(FileNames)

UsageLine == "usage : sdss_cut_out_1min.sh rd(deg) dec(deg) picture name"

\* The word the script writes for wget's URL, before field splitting:
\* 'http://...getjpeg.aspx?ra='$useRA'&dec='$useDEC'&scale=...&PhotoObjs=off'
UrlText(ra, dec) == <<"URL?ra=">> \o ra \o <<"&dec=">> \o dec \o <<"&scale...">>

\* Field splitting of an unquoted expansion: the text is cut at every blank
\* and empty fields are dropped (the blanks here only come from $useRA,
\* $useDEC and $useOutFN, which the script expands unquoted).
RECURSIVE SplitFrom(_, _, _)
SplitFrom(s, i, cur) ==
    IF i > Len(s)
    THEN IF cur = <<>> THEN <<>> ELSE <<cur>>
    ELSE IF s[i] = " "
         THEN (IF cur = <<>> THEN <<>> ELSE <<cur>>) \o SplitFrom(s, i + 1, <<>>)
         ELSE SplitFrom(s, i + 1, Append(cur, s[i]))

FieldSplit(s) == SplitFrom(s, 1, <<>>)

\* does the pattern pat, from position i, match the file name from j:
\* "*" any run of characters, "?" any one character, others themselves
RECURSIVE GlobMatch(_, _, _, _)
GlobMatch(pat, i, name, j) ==
    IF i > Len(pat) THEN j > Len(name)
    ELSE IF pat[i] = "*"
         THEN \/ GlobMatch(pat, i + 1, name, j)
              \/ (j <= Len(name) /\ GlobMatch(pat, i, name, j + 1))
    ELSE IF j > Len(name) THEN FALSE
    ELSE IF pat[i] = "?" THEN GlobMatch(pat, i + 1, name, j + 1)
    ELSE pat[i] = name[j] /\ GlobMatch(pat, i + 1, name, j + 1)

\* Pathname expansion of one word after field splitting: a word with an
\* unquoted pattern character is replaced by the sorted names it matches in
\* the working directory, and stays as it is when it matches none.
PathExpand(w, dir) ==
    IF \A i \in 1..Len(w) : w[i] \notin {"*", "?"} THEN <<w>>
    ELSE LET ms == SelectSeq(dir, LAMBDA f : GlobMatch(w, 1, f, 1))
         IN  IF ms = <<>> THEN <<w>> ELSE ms

RECURSIVE ExpandFrom(_, _, _)
ExpandFrom(words, i, dir) ==
    IF i > Len(words) THEN <<>>
    ELSE PathExpand(words[i], dir) \o ExpandFrom(words, i + 1, dir)

\* field splitting, then pathname expansion
Expand(s, dir) == ExpandFrom(FieldSplit(s), 1, dir)

\* The words of the wget command line after "wget":
\*     wget '...ra='$useRA'&dec='$useDEC'&scale=...' -O $useOutFN
WgetWords(ra, dec, fn, dir) ==
    Expand(UrlText(ra, dec), dir) \o <<<<"-O">>>> \o Expand(fn, dir)

\* a word wget takes as an option: it begins with a dash and is longer
IsOption(w) == Len(w) > 1 /\ w[1] = "-"

\* wget's reading of its command line: -O takes the next word, whatever it
\* is, as the output document; a word that begins with a dash and is longer
\* than the dash is an option; every other word is a URL.  With no word
\* after -O wget reports the missing argument and fetches nothing.
RECURSIVE WgetParse(_, _, _, _, _)
WgetParse(words, i, urls, out, opts) ==
    IF i > Len(words)
    THEN [urls |-> urls, out |-> out, opts |-> opts, bad |-> FALSE]
    ELSE IF words[i] = <<"-O">>
         THEN IF i = Len(words)
              THEN [urls |-> <<>>, out |-> <<>>, opts |-> opts, bad |-> TRUE]
              ELSE WgetParse(words, i + 2, urls, words[i + 1], opts)
         ELSE IF IsOption(words[i])
              THEN WgetParse(words, i + 1, urls, out, Append(opts, words[i]))
              ELSE WgetParse(words, i + 1, Append(urls, words[i]), out, opts)

\* what wget fetches and writes when an option changes its run, where it
\* is neither nothing nor what the command line reads as without the option
OtherDocuments == << <<"other documents">> >>
OtherFile == <<"another file">>

\* [ $# != '3' ]
WrongArgCount_lt(n) == n < 3

WrongArgCount(n) == n # 3

\* The script reads $#, $1, $2 and $3 only: the arguments after the third
\* are all taken to be "7".
ShInit ==
    /\ \E n \in 0..MaxArgs :
       \E a \in [1..(IF n < 3 THEN n ELSE 3) -> Args] :
            argv = [k \in 1..n |-> IF k <= 3 THEN a[k] ELSE <<"7">>]
    /\ cwd \in Dirs
    /\ shPc = "start"
    /\ useRA = <<>> /\ useDEC = <<>> /\ useOutFN = <<>>
    /\ stdout = <<>>
    /\ exitStatus = -1
    /\ requests = <<>>
    /\ outFile = <<>>

\* The script is not run.
ShIdle ==
    /\ argv = <<>>
    /\ cwd = <<>>
    /\ shPc = "exited"
    /\ useRA = <<>> /\ useDEC = <<>> /\ useOutFN = <<>>
    /\ stdout = <<>>
    /\ exitStatus = -1
    /\ requests = <<>>
    /\ outFile = <<>>

\* if [ $# != '3' ]; then echo usage; exit 0
Usage ==
    /\ shPc = "start"
    /\ WrongArgCount(Len(argv))
    /\ stdout' = Append(stdout, UsageLine)
    /\ exitStatus' = 0
    /\ shPc' = "exited"
    /\ UNCHANGED <<argv, cwd, useRA, useDEC, useOutFN, requests, outFile>>
    /\ UNCHANGED notSh

\* else useRA=$1; useDEC=$2; useOutFN=$3   (a missing $n expands to nothing)
AssignArgs ==
    /\ shPc = "start"
    /\ ~WrongArgCount(Len(argv))
    /\ useRA' = (IF Len(argv) >= 1 THEN argv[1] ELSE <<>>)
    /\ useDEC' = (IF Len(argv) >= 2 THEN argv[2] ELSE <<>>)
    /\ useOutFN' = (IF Len(argv) >= 3 THEN argv[3] ELSE <<>>)
    /\ shPc' = "wget"
    /\ UNCHANGED <<argv, cwd, stdout, exitStatus, requests, outFile>>
    /\ UNCHANGED notSh

\* wget '...' -O $useOutFN ; the script ends with wget's exit status,
\* whatever it is.
\*  - -O without a word after it: wget fetches nothing and reports an error
\*    (status 1 or 2, by its version).
\*  - an option among the words: what it does is wget's business (it may end
\*    the run at once as -V does, be refused, take the next word as its own
\*    argument, or name more documents to fetch): wget fetches nothing, or
\*    the URLs as read above, or some other list of documents, and writes
\*    no file, or the document of -O, or some other file.
\*  - otherwise wget fetches every URL in order into the document of -O
\*    (a lone dash: its standard output) and exits with 0, or with one of
\*    its failure statuses.
Wget ==
    /\ shPc = "wget"
    /\ LET words == WgetWords(useRA, useDEC, useOutFN, cwd)
           p == WgetParse(words, 1, <<>>, <<>>, <<>>)
       IN  IF p.bad
           THEN /\ requests' = requests
                /\ outFile' = <<>>
                /\ stdout' = stdout
                /\ exitStatus' \in {1, 2}
           ELSE IF p.opts # <<>>
           THEN /\ requests' \in {requests, requests \o p.urls,
                                  requests \o OtherDocuments}
                /\ outFile' \in {<<>>, p.out, OtherFile}
                /\ stdout' \in {stdout, Append(stdout, "wget output")}
                /\ exitStatus' \in 0..8
           ELSE /\ requests' = requests \o p.urls
                /\ exitStatus' \in 0..8
                /\ IF p.out = <<"-">>
                   THEN /\ outFile' = <<>>
                        /\ stdout' \in
                             (IF exitStatus' = 0 THEN {}
                                                 ELSE {stdout})
                               \cup {Append(stdout, "wget output")}
                   ELSE /\ outFile' = p.out
                        /\ stdout' = stdout
    /\ shPc' = "exited"
    /\ UNCHANGED <<argv, cwd, useRA, useDEC, useOutFN>>
    /\ UNCHANGED notSh

---------------------------------------------------------------------------
(***************************************************************************)
(* Floating-point values.  A value is finite (an integer of magnitude at   *)
(* most FMax), +inf, -inf or NaN; a finite result beyond FMax overflows to *)
(* the infinity of its sign, as IEEE addition does.                        *)
(***************************************************************************)
Fin(n) == [k |-> "fin", v |-> n]
PInf == [k |-> "+inf", v |-> 0]
NInf == [k |-> "-inf", v |-> 0]
NaN == [k |-> "nan", v |-> 0]
NoVal == [k |-> "none", v |-> 0]     \* no value yet (not a float)

\* Python's None, and an ndarray of the values a
None == [k |-> "None", a |-> <<>>]
Array(a) == [k |-> "array", a |-> a]

\* the outcome of a call that raised instead of returning
TypeError == [k |-> "TypeError", v |-> 0]
AttributeError == [k |-> "AttributeError", v |-> 0]

FVals == { Fin(n) : n \in (0 - FMax)..FMax } \cup {PInf, NInf, NaN}

Overflow(n) == IF n > FMax THEN PInf ELSE IF n < 0 - FMax THEN NInf ELSE Fin(n)

\* a + b
FAdd(a, b) ==
    IF a.k = "nan" \/ b.k = "nan" THEN NaN
    ELSE IF a.k = "fin" /\ b.k = "fin" THEN Overflow(a.v + b.v)
    ELSE IF a.k = "fin" THEN b
    ELSE IF b.k = "fin" THEN a
    ELSE IF a.k = b.k THEN a
    ELSE NaN

np_isinf(x) == x.k \in {"+inf", "-inf"}
np_isnan(x) == x.k = "nan"
np_isfinite(x) == x.k = "fin"

\* ndarray.sum(): the elements added in order, starting from 0
RECURSIVE SumFrom(_, _, _)
SumFrom(arr, i, acc) ==
    IF i > Len(arr) THEN acc ELSE SumFrom(arr, i + 1, FAdd(acc, arr[i]))

NpSum(arr) == SumFrom(arr, 1, Fin(0))

---------------------------------------------------------------------------
(***************************************************************************)
(* ProbModel.ln_posterior and ProbModel.__call__.  ln_prior and            *)
(* ln_likelihood are the subclass's methods: what they return for the      *)
(* parameter vector of a call is chosen when the call is made.             *)
(***************************************************************************)
\* if np.isinf(lnp): return lnp
PriorShortCircuit_neginf(p) == p.k = "-inf"

PriorShortCircuit(p) == np_isinf(p)

\* lnL = self.ln_likelihood(pars).sum(); lnprob = lnp + lnL;
\* if np.isnan(lnprob): return -np.inf;  return lnprob
PosteriorTail_noprior(p, like) == NpSum(like)

PosteriorTail(p, like) ==
    LET lnL == NpSum(like)
        lnprob == FAdd(p, lnL)
    IN  IF np_isnan(lnprob) THEN NInf ELSE lnprob

PmInit ==
    /\ pmPc = "idle"
    /\ pmEntry = "ln_posterior"
    /\ pmPrior = NoVal
    /\ pmLike = <<>>
    /\ lnp = NoVal
    /\ pmRet = NoVal
    /\ pmCallRet = NoVal

\* model.ln_posterior(pars) or model(pars) is called (in the notebook that
\* defines ProbModel)
PmCall ==
    /\ pmPc = "idle"
    /\ nb # "gp"
    /\ \E e \in {"ln_posterior", "__call__"}, p \in FVals,
          like \in SeqsUpTo(FVals, MaxData) :
            /\ pmEntry' = e
            /\ pmPrior' = p
            /\ pmLike' = like
    /\ lnp' = NoVal
    /\ pmRet' = NoVal
    /\ pmCallRet' = NoVal
    /\ pmPc' = "prior"
    /\ UNCHANGED notPm

\* lnp = self.ln_prior(pars); if np.isinf(lnp): return lnp
PmPrior ==
    /\ pmPc = "prior"
    /\ lnp' = pmPrior
    /\ IF PriorShortCircuit(pmPrior)
       THEN pmRet' = pmPrior /\ pmPc' = "ret"
       ELSE pmRet' = pmRet /\ pmPc' = "like"
    /\ UNCHANGED <<pmEntry, pmPrior, pmLike, pmCallRet>>
    /\ UNCHANGED notPm

\* the rest of ln_posterior
PmLikelihood ==
    /\ pmPc = "like"
    /\ pmRet' = PosteriorTail(lnp, pmLike)
    /\ pmPc' = "ret"
    /\ UNCHANGED <<pmEntry, pmPrior, pmLike, lnp, pmCallRet>>
    /\ UNCHANGED notPm

\* ln_posterior returns; __call__ returns what ln_posterior returned
PmReturn ==
    /\ pmPc = "ret"
    /\ pmCallRet' = (IF pmEntry = "__call__" THEN pmRet ELSE NoVal)
    /\ pmPc' = "done"
    /\ UNCHANGED <<pmEntry, pmPrior, pmLike, lnp, pmRet>>
    /\ UNCHANGED notPm

\* the caller has taken the value; the model object waits for the next call
PmNextCall ==
    /\ pmPc = "done"
    /\ pmPc' = "idle"
    /\ pmEntry' = "ln_posterior"
    /\ pmPrior' = NoVal
    /\ pmLike' = <<>>
    /\ lnp' = NoVal
    /\ pmRet' = NoVal
    /\ pmCallRet' = NoVal
    /\ UNCHANGED notPm

\* a call has returned and its result is at hand
PmDone == pmPc = "done"

---------------------------------------------------------------------------
(***************************************************************************)
(* Model2.ln_likelihood.  ln_likelihood_inlier and ln_likelihood_outlier   *)
(* are left to be filled in: as they stand they return None, and           *)
(* np.logaddexp raises TypeError on it.  Filled in, they return one        *)
(* log-likelihood per datum: -inf, +inf, NaN, or the logarithm of a        *)
(* positive number counted in halves, LnQ(v, d) = ln(v / 2^d) with v odd   *)
(* or d = 0.  The values np.logaddexp and np.sum produce from such         *)
(* logarithms are again of this form (ln a + ln b = ln(a*b),               *)
(* logaddexp(ln a, ln b) = ln(a+b)).                                       *)
(***************************************************************************)
\* ln(v / 2^d), the fraction in lowest terms
RECURSIVE LnQ(_, _)
LnQ(v, d) ==
    IF d > 0 /\ v % 2 = 0 THEN LnQ(v \div 2, d - 1)
    ELSE [k |-> "ln", v |-> v, d |-> d]

\* ln(n) for a whole number n >= 1
LnOf(n) == LnQ(n, 0)

\* what a filled-in method returns per datum: ln(1/2), ln(1), ln(3/2), ...
MixVals == { LnQ(n, 1) : n \in 1..MaxLik } \cup {PInf, NInf, NaN}

\* what ln_likelihood_inlier(pars) or ln_likelihood_outlier(pars) returns
\* for N data points: None as the methods stand, an array when filled in
MixReturns(N) == {None} \cup { Array(a) : a \in [1..N -> MixVals] }

\* the numerator of the "ln" value x over the denominator 2^d, d >= x.d
Over(x, d) == x.v * 2^(d - x.d)

MaxOf(a, b) == IF a >= b THEN a ELSE b

\* x > y on log values that are not NaN
LnGreater(x, y) ==
    \/ x.k = "+inf" /\ y.k # "+inf"
    \/ y.k = "-inf" /\ x.k # "-inf"
    \/ /\ x.k = "ln" /\ y.k = "ln"
       /\ Over(x, MaxOf(x.d, y.d)) > Over(y, MaxOf(x.d, y.d))

\* hi + log1p(exp(lo - hi)) for hi > lo
AddLog1pExp(hi, lo) ==
    IF hi.k = "+inf" THEN PInf
    ELSE IF lo.k = "-inf" THEN hi
    ELSE LnQ(Over(hi, MaxOf(hi.d, lo.d)) + Over(lo, MaxOf(hi.d, lo.d)),
             MaxOf(hi.d, lo.d))

\* np.logaddexp(x, y): x + ln 2 when x = y; else the larger plus
\* log1p(exp(-|x - y|)); NaN when the difference is NaN
LogAddExp(x, y) ==
    IF x.k = "nan" \/ y.k = "nan" THEN NaN
    ELSE IF x = y THEN (IF x.k = "ln" THEN LnQ(2 * x.v, x.d) ELSE x)
    ELSE IF LnGreater(x, y) THEN AddLog1pExp(x, y)
    ELSE AddLog1pExp(y, x)

\* x + y on log values
LnAdd(x, y) ==
    IF x.k = "nan" \/ y.k = "nan" THEN NaN
    ELSE IF x.k = "ln" /\ y.k = "ln" THEN LnQ(x.v * y.v, x.d + y.d)
    ELSE IF x.k = "ln" THEN y
    ELSE IF y.k = "ln" THEN x
    ELSE IF x.k = y.k THEN x
    ELSE NaN

\* np.sum of an array of log values, starting from 0 = ln 1
RECURSIVE LnSumFrom(_, _, _)
LnSumFrom(arr, i, acc) ==
    IF i > Len(arr) THEN acc ELSE LnSumFrom(arr, i + 1, LnAdd(acc, arr[i]))

LnSum(arr) == LnSumFrom(arr, 1, LnOf(1))

\* ll = np.sum(np.logaddexp(ll_out, ll_in)); return ll
Model2_ln_likelihood_sumfirst(out, in) ==
    IF out = None \/ in = None THEN TypeError
    ELSE LogAddExp(LnSum(out.a), LnSum(in.a))

Model2_ln_likelihood(out, in) ==
    IF out = None \/ in = None THEN TypeError
    ELSE LnSum([i \in 1..Len(out.a) |-> LogAddExp(out.a[i], in.a[i])])

MixInit ==
    /\ mixPc = "idle"
    /\ ll_in = Array(<<>>)
    /\ ll_out = Array(<<>>)
    /\ mixRet = NoVal

\* model2.ln_likelihood(pars): the outlier and inlier log-likelihoods of the
\* N data points are computed, then combined
MixLnLikelihood ==
    /\ mixPc = "idle"
    /\ \E n \in 0..MaxData :
       \E out \in MixReturns(n), in \in MixReturns(n) :
            /\ ll_out' = out
            /\ ll_in' = in
            /\ mixRet' = Model2_ln_likelihood(out, in)
    /\ mixPc' = "done"
    /\ UNCHANGED notMix

\* the caller has taken the value; the model object waits for the next call
MixNextCall ==
    /\ mixPc = "done"
    /\ mixPc' = "idle"
    /\ ll_in' = Array(<<>>)
    /\ ll_out' = Array(<<>>)
    /\ mixRet' = NoVal
    /\ UNCHANGED notMix

---------------------------------------------------------------------------
(***************************************************************************)
(* Gaussian-process notebook: ln_prior, ln_prior2, ln_posterior and        *)
(* ln_posterior2.  A parameter is a float: finite, +inf, -inf or NaN.      *)
(* f_0 is counted in units of 10, so that its upper prior bound 1E10 is    *)
(* F0_HI = 10^9 units; ln_a and ln_b are counted in units of 1.            *)
(***************************************************************************)
F0_LO == 0
F0_HI == 1000000000
LN_LO == -10
LN_HI == 10

Near(c) == (c - Margin)..(c + Margin)

F0Vals == { Fin(n) : n \in Near(F0_LO) \cup Near(F0_HI) } \cup {PInf, NInf, NaN}
LnParVals == { Fin(n) : n \in Near(LN_LO) \cup Near(LN_HI) } \cup {PInf, NInf, NaN}

\* x < c and x > c for a float x and a finite c (False when x is NaN)
Lt(x, c) == x.k = "-inf" \/ (x.k = "fin" /\ x.v < c)
Gt(x, c) == x.k = "+inf" \/ (x.k = "fin" /\ x.v > c)

\* def ln_prior(pars)
ln_prior_strict(pars) ==
    IF ~(Gt(pars[1], F0_LO) /\ Lt(pars[1], F0_HI)) THEN NInf
    ELSE IF ~(Gt(pars[2], LN_LO) /\ Lt(pars[2], LN_HI)) THEN NInf
    ELSE IF ~(Gt(pars[3], LN_LO) /\ Lt(pars[3], LN_HI)) THEN NInf
    ELSE Fin(0)

ln_prior(pars) ==
    LET f_0 == pars[1]
        ln_a == pars[2]
        ln_b == pars[3]
    IN  IF Lt(f_0, F0_LO) \/ Gt(f_0, F0_HI) THEN NInf
        ELSE IF Lt(ln_a, LN_LO) \/ Gt(ln_a, LN_HI) THEN NInf
        ELSE IF Lt(ln_b, LN_LO) \/ Gt(ln_b, LN_HI) THEN NInf
        ELSE Fin(0)

\* def ln_prior2(pars): the loop over pars[1:]
RECURSIVE ln_prior2_loop(_, _)
ln_prior2_loop(pars, i) ==
    IF i > Len(pars) THEN Fin(0)
    ELSE IF Lt(pars[i], LN_LO) \/ Gt(pars[i], LN_HI) THEN NInf
    ELSE ln_prior2_loop(pars, i + 1)

ln_prior2(pars) ==
    LET f_0 == pars[1]
    IN  IF Lt(f_0, F0_LO) \/ Gt(f_0, F0_HI) THEN NInf
        ELSE ln_prior2_loop(pars, 2)

\* if not np.isfinite(lp): return -np.inf      (and the same test on ll)
GiveUp_nanonly(x) == np_isnan(x)

GiveUp(x) == ~np_isfinite(x)

GpInit ==
    /\ gpPc = "idle"
    /\ gpFn = "ln_posterior"
    /\ gpPars = <<>>
    /\ lp = NoVal
    /\ ll = NoVal
    /\ gpRet = NoVal

\* ln_posterior(pars, t, flux, flux_err) or ln_posterior2(...) is called (in
\* the notebook that defines them)
GpCall ==
    /\ gpPc = "idle"
    /\ nb # "marginalization"
    /\ gpFn' \in {"ln_posterior", "ln_posterior2"}
    /\ gpPars' \in F0Vals \X LnParVals \X LnParVals
    /\ gpPc' = "prior"
    /\ UNCHANGED <<lp, ll, gpRet>>
    /\ UNCHANGED notGp

\* lp = ln_prior(pars); if not np.isfinite(lp): return -np.inf
GpPrior ==
    /\ gpPc = "prior"
    /\ lp' = (IF gpFn = "ln_posterior" THEN ln_prior(gpPars) ELSE ln_prior2(gpPars))
    /\ IF GiveUp(lp')
       THEN gpRet' = NInf /\ gpPc' = "done"
       ELSE gpRet' = gpRet /\ gpPc' = "like"
    /\ UNCHANGED <<gpFn, gpPars, ll>>
    /\ UNCHANGED notGp

\* ll = ln_likelihood(pars, t, flux, flux_err) (ln_likelihood2 in
\* ln_posterior2): the number the linear algebra yields, any float;
\* if not np.isfinite(ll): return -np.inf;  return lp + ll
GpLikelihood ==
    /\ gpPc = "like"
    /\ ll' \in FVals
    /\ gpRet' = (IF GiveUp(ll') THEN NInf ELSE FAdd(lp, ll'))
    /\ gpPc' = "done"
    /\ UNCHANGED <<gpFn, gpPars, lp>>
    /\ UNCHANGED notGp

\* the caller has taken the value
GpNextCall ==
    /\ gpPc = "done"
    /\ gpPc' = "idle"
    /\ gpFn' = "ln_posterior"
    /\ gpPars' = <<>>
    /\ lp' = NoVal
    /\ ll' = NoVal
    /\ gpRet' = NoVal
    /\ UNCHANGED notGp

---------------------------------------------------------------------------
(***************************************************************************)
(* Gaussian-process notebook: sq_exp_kernel and ln_likelihood.  The        *)
(* numbers np.exp, np.linalg.solve and np.linalg.slogdet yield are not     *)
(* whole numbers, so the model keeps the expressions the code evaluates:   *)
(*   [exp |-> x]                     np.exp(x)                             *)
(*   [amp |-> a, len |-> b, d2 |-> d]    a**2 * np.exp(-0.5 * d / b**2)    *)
(*   [var |-> v, k |-> K]            v + K, an entry of C                  *)
(*   [r |-> r, quadC |-> C, detC |-> D, n2pi |-> n]                        *)
(*        -0.5 * r @ solve(C, r) - 0.5 * slogdet(D)[1] - (n/2) ln(2 pi)    *)
(* Two such expressions with the same fields have the same value; with     *)
(* different n2pi and otherwise equal fields their values differ by a      *)
(* multiple of ln(2 pi).                                                   *)
(***************************************************************************)
np_exp(x) == [exp |-> x]

\* def sq_exp_kernel(x_i, x_j, a, b):
\*     return a**2 * np.exp(-0.5 * (x_i-x_j)**2 / b**2)
sq_exp_kernel(x_i, x_j, a, b) ==
    [amp |-> a, len |-> b, d2 |-> (x_i - x_j) * (x_i - x_j)]

\* C = np.diag(flux_err**2) + sq_exp_kernel(t[:,None], t[None], exp(ln_a), exp(ln_b))
\* (np.diag puts flux_err[i]**2 at [i][i] and 0 elsewhere; without it the
\* sum would broadcast flux_err[j]**2 over column j)
CovMatrix_nodiag(t, y_err, ln_a, ln_b) ==
    [i \in 1..Len(t) |->
        [j \in 1..Len(t) |->
            [var |-> y_err[j] * y_err[j],
             k |-> sq_exp_kernel(t[i], t[j], np_exp(ln_a), np_exp(ln_b))]]]

CovMatrix(t, y_err, ln_a, ln_b) ==
    [i \in 1..Len(t) |->
        [j \in 1..Len(t) |->
            [var |-> IF i = j THEN y_err[i] * y_err[i] ELSE 0,
             k |-> sq_exp_kernel(t[i], t[j], np_exp(ln_a), np_exp(ln_b))]]]

\* def ln_likelihood(pars, t, flux, flux_err), with y for flux and y_err for flux_err
ln_likelihood(pars, t, y, y_err) ==
    LET f_0 == pars[1]
        ln_a == pars[2]
        ln_b == pars[3]
        r == [i \in 1..Len(y) |-> y[i] - f_0]
        C == CovMatrix(t, y_err, ln_a, ln_b)
    IN  [r |-> r, quadC |-> C, detC |-> C, n2pi |-> 0]

ErrVals == {1, 2}
LnVals == {-1, 0, 1}

LikeInit ==
    /\ likePc = "idle"
    /\ likeArgs = <<>>
    /\ likeRet = <<>>

\* ln_likelihood(pars, t, flux, flux_err) is called on a light curve of n points
LnLikelihoodCall ==
    /\ likePc = "idle"
    /\ \E n \in 0..MaxN :
       \E pars \in (0..MaxVal) \X LnVals \X LnVals,
          t \in [1..n -> 0..MaxVal], y \in [1..n -> 0..MaxVal],
          y_err \in [1..n -> ErrVals] :
            /\ likeArgs' = <<pars, t, y, y_err>>
            /\ likeRet' = ln_likelihood(pars, t, y, y_err)
    /\ likePc' = "done"
    /\ UNCHANGED notLike

\* the caller has taken the value
LikeNextCall ==
    /\ likePc = "done"
    /\ likePc' = "idle"
    /\ likeArgs' = <<>>
    /\ likeRet' = <<>>
    /\ UNCHANGED notLike

---------------------------------------------------------------------------
(***************************************************************************)
(* Gaussian-process notebook: the cells that filter, clip and trim the     *)
(* light curve.  A row of the table has TIME, PDCSAP_FLUX (FLUX) and       *)
(* PDCSAP_FLUX_ERR (ERR).  TIME is the row's number, so that a value of    *)
(* time names the row it was read from.  Medians of whole numbers are      *)
(* whole or half numbers: the model keeps med2 = 2 * med and               *)
(* mad4 = 4 * median(|raw_flux - med|), so robust_std = 1.48 * mad4 / 4.   *)
(***************************************************************************)
trim == 512

FluxVals == {Fin(0), Fin(1), Fin(2), Fin(9), NaN, PInf}

MinOf(a, b) == IF a < b THEN a ELSE b
Abs(n) == IF n < 0 THEN 0 - n ELSE n

\* arr[keep]: the elements of arr[lo..hi] whose keep is True, in order
RECURSIVE SelectRange(_, _, _, _)
SelectRange(arr, keep, lo, hi) ==
    IF lo > hi THEN <<>>
    ELSE IF lo = hi THEN (IF keep[lo] THEN <<arr[lo]>> ELSE <<>>)
    ELSE LET mid == (lo + hi) \div 2
         IN  SelectRange(arr, keep, lo, mid) \o SelectRange(arr, keep, mid + 1, hi)

Select(arr, keep) == SelectRange(arr, keep, 1, Len(arr))

\* arr[:n]
Take(arr, n) == SubSeq(arr, 1, MinOf(n, Len(arr)))

\* the number of elements of arr that are at most v
AtMost(arr, v) == Cardinality({ i \in 1..Len(arr) : arr[i] <= v })

\* the k-th smallest element of a non-empty arr, whose values are vals
KthAmong(arr, vals, k) ==
    CHOOSE v \in vals :
        /\ AtMost(arr, v) >= k
        /\ \A w \in vals : w < v => AtMost(arr, w) < k

KthSmallest(arr, k) == KthAmong(arr, { arr[i] : i \in 1..Len(arr) }, k)

\* 2 * np.median(arr): the middle element, or the mean of the two middle
\* ones; NaN for an empty array
Median2(arr) ==
    LET n == Len(arr)
    IN  IF n = 0 THEN NaN
        ELSE IF n % 2 = 1 THEN Fin(2 * KthSmallest(arr, (n + 1) \div 2))
        ELSE Fin(KthSmallest(arr, n \div 2) + KthSmallest(arr, n \div 2 + 1))

\* med = np.median(raw_flux)
\* robust_std = 1.48 * np.median(np.abs(raw_flux - med))
AbsDev2(rf, m2) == [i \in 1..Len(rf) |-> Abs(2 * rf[i] - m2)]

StdGiven(rf, m2) ==
    IF m2.k = "nan" THEN [med2 |-> NaN, mad4 |-> NaN]
    ELSE [med2 |-> m2, mad4 |-> Median2(AbsDev2(rf, m2.v))]

MedianAndStd(rf) == StdGiven(rf, Median2(rf))

\* (f < med + 5*robust_std) & (f > med - 5*robust_std), that is
\* f < med2/2 + 5 * 1.48 * mad4/4, multiplied through by 20
InClip(f, st) ==
    /\ st.med2.k = "fin"
    /\ 20 * f < 10 * st.med2.v + 37 * st.mad4.v
    /\ 20 * f > 10 * st.med2.v - 37 * st.mad4.v

\* idx = (raw_flux < (med + 5*robust_std)) & (raw_flux > (med - 5*robust_std))
ClipMask(rf, st) == [i \in 1..Len(rf) |-> InClip(rf[i], st)]

\* raw_x[idx][:trim]
ClipTrim_notrim(arr, keep) == Select(arr, keep)

ClipTrim(arr, keep) == Take(Select(arr, keep), trim)

\* time.min() of a non-empty array: the least element of arr[lo..hi]
RECURSIVE MinRange(_, _, _)
MinRange(arr, lo, hi) ==
    IF lo = hi THEN arr[lo]
    ELSE LET mid == (lo + hi) \div 2
         IN  MinOf(MinRange(arr, lo, mid), MinRange(arr, mid + 1, hi))

ArrayMin(arr) == MinRange(arr, 1, Len(arr))

\* time - time.min()
Minus(arr, m) == [i \in 1..Len(arr) |-> arr[i] - m]

ShiftToZero(arr) == Minus(arr, ArrayMin(arr))

\* the table whose first rows have the fluxes p and whose n further rows
\* have the fluxes 0, 1, 2, 0, 1, 2, ...
TableOf(p, n) ==
    [i \in 1..(Len(p) + n) |->
        [TIME |-> i,
         FLUX |-> IF i <= Len(p) THEN p[i] ELSE Fin(i % 3),
         ERR |-> 1 + (i % 2)]]

Tables ==
    { TableOf(p, 0) : p \in SeqsUpTo(FluxVals, MaxRows) }
        \cup { TableOf(p, LongLen) : p \in SeqsUpTo(FluxVals, MaxRows) }

ShortTables == { TableOf(p, 0) : p \in SeqsUpTo(FluxVals, MaxSesRows) }

\* data = fits.getdata('../data/k2.fits'), the file holding one of the tables T
LcLoaded(T) ==
    /\ table \in T
    /\ data = table
    /\ lcPc = "loaded"
    /\ raw_time = <<>> /\ raw_flux = <<>> /\ raw_flux_err = <<>>
    /\ stats = [med2 |-> NoVal, mad4 |-> NoVal]
    /\ idx = <<>>
    /\ time = <<>> /\ flux = <<>> /\ flux_err = <<>>

LcInit == LcLoaded(Tables)

\* The notebook's light-curve cells are not run.
LcIdle ==
    /\ table = <<>>
    /\ data = <<>>
    /\ lcPc = "idle"
    /\ raw_time = <<>> /\ raw_flux = <<>> /\ raw_flux_err = <<>>
    /\ stats = [med2 |-> NoVal, mad4 |-> NoVal]
    /\ idx = <<>>
    /\ time = <<>> /\ flux = <<>> /\ flux_err = <<>>

\* data = data[np.isfinite(data['PDCSAP_FLUX'])]; raw_time = ...; raw_flux = ...;
\* raw_flux_err = ...
FilterCell ==
    /\ lcPc = "loaded"
    /\ data' = Select(data, [i \in 1..Len(data) |-> np_isfinite(data[i].FLUX)])
    /\ raw_time' = [i \in 1..Len(data') |-> data'[i].TIME]
    /\ raw_flux' = [i \in 1..Len(data') |-> data'[i].FLUX.v]
    /\ raw_flux_err' = [i \in 1..Len(data') |-> data'[i].ERR]
    /\ lcPc' = "filtered"
    /\ UNCHANGED <<table, stats, idx, time, flux, flux_err>>
    /\ UNCHANGED notLc

\* med = ...; robust_std = ...
StatsCell ==
    /\ lcPc = "filtered"
    /\ stats' = MedianAndStd(raw_flux)
    /\ lcPc' = "stats"
    /\ UNCHANGED <<table, data, raw_time, raw_flux, raw_flux_err, idx, time, flux, flux_err>>
    /\ UNCHANGED notLc

\* idx = ...; time = raw_time[idx][:trim]; flux = ...; flux_err = ...;
\* time = time - time.min()    (min() of an empty array raises ValueError:
\* the cell stops with time, flux and flux_err already assigned)
\* raw_time[idx] is a new array (Boolean indexing copies) and time - time.min()
\* is another new array bound to the name time: the cell writes to no element
\* of raw_time, raw_flux, raw_flux_err, data or the file.
ClipCell_inplace ==
    /\ lcPc = "stats"
    /\ idx' = ClipMask(raw_flux, stats)
    /\ flux' = ClipTrim(raw_flux, idx')
    /\ flux_err' = ClipTrim(raw_flux_err, idx')
    /\ \E tm \in {ClipTrim(raw_time, idx')} :
          IF Len(tm) = 0
          THEN time' = tm /\ lcPc' = "error" /\ raw_time' = raw_time
          ELSE /\ time' = ShiftToZero(tm) /\ lcPc' = "clipped"
               /\ raw_time' = Minus(raw_time, ArrayMin(tm))
    /\ UNCHANGED <<table, data, raw_flux, raw_flux_err, stats>>
    /\ UNCHANGED notLc

ClipCell ==
    /\ lcPc = "stats"
    /\ idx' = ClipMask(raw_flux, stats)
    /\ flux' = ClipTrim(raw_flux, idx')
    /\ flux_err' = ClipTrim(raw_flux_err, idx')
    /\ \E tm \in {ClipTrim(raw_time, idx')} :
          IF Len(tm) = 0
          THEN time' = tm /\ lcPc' = "error"
          ELSE time' = ShiftToZero(tm) /\ lcPc' = "clipped"
    /\ UNCHANGED <<table, data, raw_time, raw_flux, raw_flux_err, stats>>
    /\ UNCHANGED notLc

---------------------------------------------------------------------------
(***************************************************************************)
(* A notebook session: the probability functions are called any number of  *)
(* times, in any order and with any of a few parameter vectors, as the     *)
(* sampler does.  In the marginalization notebook the calls go to the      *)
(* ProbModel object model1 (ln_posterior or __call__); in the              *)
(* Gaussian-process notebook they go to ln_likelihood, ln_prior and        *)
(* ln_posterior with the arguments time, flux, flux_err.  Model1's         *)
(* ln_prior and ln_likelihood are left to be filled in: as they stand they *)
(* return None; what they return is fixed when the object is made, per     *)
(* parameter vector: None, or a float (ln_prior) or an array of per-datum  *)
(* floats (ln_likelihood) computed from the stored data.                   *)
(***************************************************************************)
PmParVecs == { <<1, 0>>, <<1, 1>> }                       \* (f0, lnV)
GpParVecs == { <<1, 0, 0 - 1>>, <<0, 1, 0>>, <<0 - 1, 0, 0>> }    \* (f_0, ln_a, ln_b)

\* what Model1.ln_prior(pars) returns
SubPriorVals == {None, Fin(0), NInf}

\* what Model1.ln_likelihood(pars) returns for n data points
SubLikeVals(n) == {None} \cup { Array(a) : a \in [1..n -> {Fin(0 - 1), NaN}] }

\* a parameter vector of whole numbers as floats, f_0 in units of 10
ParsAsFloats(p) == <<Fin(p[1] \div 10), Fin(p[2]), Fin(p[3])>>

\* no session of calls is followed; the notebook open is one of N
NoSession(N) ==
    /\ nb \in N
    /\ model1 = [x |-> <<>>, y |-> <<>>, y_err |-> <<>>]
    /\ subclass = <<>>
    /\ sesCall = <<>>
    /\ sesRet = <<>>
    /\ sesKept = <<>>

SesIdle == NoSession({"none"})

\* model1 = Model1(x=tbl1['time'], y=tbl1['flux'], y_err=tbl1['flux_err'])
MargNotebook ==
    /\ nb = "marginalization"
    /\ \E n \in 0..MaxData :
          /\ model1 \in { [x |-> [i \in 1..n |-> i], y |-> f, y_err |-> [i \in 1..n |-> 1]] :
                            f \in [1..n -> 0..1] }
          /\ subclass \in [ln_prior : [PmParVecs -> SubPriorVals],
                           ln_likelihood : [PmParVecs -> SubLikeVals(n)]]
    /\ sesCall = <<>>
    /\ sesRet = <<>>
    /\ sesKept = <<>>
    /\ LcIdle

\* the Gaussian-process notebook, k2.fits just read
GpNotebook ==
    /\ nb = "gp"
    /\ model1 = [x |-> <<>>, y |-> <<>>, y_err |-> <<>>]
    /\ subclass = <<>>
    /\ sesCall = <<>>
    /\ sesRet = <<>>
    /\ sesKept = <<>>
    /\ LcLoaded(ShortTables)

\* the call at hand may be kept to compare a later call with it
Keep(fn, p, ret) ==
    sesKept' \in
        (IF sesKept = <<>> THEN {<<>>, <<fn, p, ret, 0, FALSE>>}
         ELSE {<<sesKept[1], sesKept[2], sesKept[3], MinOf(sesKept[4] + 1, 2),
                 sesKept[5] \/ <<fn, p>> # <<sesKept[1], sesKept[2]>>>>})

\* ProbModel.ln_posterior(pars) as a whole: np.isinf(None) raises
\* TypeError, None.sum() raises AttributeError
ProbModel_ln_posterior(p) ==
    LET prior == subclass.ln_prior[p]
        like == subclass.ln_likelihood[p]
    IN  IF prior = None THEN TypeError
        ELSE IF PriorShortCircuit(prior) THEN prior
        ELSE IF like = None THEN AttributeError
        ELSE PosteriorTail(prior, like.a)

\* model1.ln_posterior(pars) or model1(pars)
CallModel1 ==
    /\ nb = "marginalization"
    /\ \E fn \in {"ln_posterior", "__call__"}, p \in PmParVecs :
          /\ sesCall' = <<fn, p>>
          /\ sesRet' = <<ProbModel_ln_posterior(p)>>
          /\ Keep(fn, p, sesRet')
    /\ UNCHANGED <<nb, model1, subclass>>
    /\ UNCHANGED lcVars
    /\ UNCHANGED notSes

\* ln_likelihood(pars, time, flux, flux_err): r = flux - f_0 is a new array
CallLnLikelihood_inplace ==
    /\ nb = "gp" /\ lcPc = "clipped"
    /\ \E p \in GpParVecs :
          /\ sesCall' = <<"ln_likelihood", p>>
          /\ sesRet' = <<ln_likelihood(p, time, flux, flux_err)>>
          /\ Keep("ln_likelihood", p, sesRet')
          /\ flux' = [i \in 1..Len(flux) |-> flux[i] - p[1]]
    /\ UNCHANGED <<nb, model1, subclass>>
    /\ UNCHANGED <<lcPc, table, data, raw_time, raw_flux, raw_flux_err, stats, idx,
                   time, flux_err>>
    /\ UNCHANGED notSes

CallLnLikelihood ==
    /\ nb = "gp" /\ lcPc = "clipped"
    /\ \E p \in GpParVecs :
          /\ sesCall' = <<"ln_likelihood", p>>
          /\ sesRet' = <<ln_likelihood(p, time, flux, flux_err)>>
          /\ Keep("ln_likelihood", p, sesRet')
    /\ UNCHANGED <<nb, model1, subclass>>
    /\ UNCHANGED lcVars
    /\ UNCHANGED notSes

\* ln_prior(pars)
CallLnPrior ==
    /\ nb = "gp" /\ lcPc = "clipped"
    /\ \E p \in GpParVecs :
          /\ sesCall' = <<"ln_prior", p>>
          /\ sesRet' = <<ln_prior(ParsAsFloats(p))>>
          /\ Keep("ln_prior", p, sesRet')
    /\ UNCHANGED <<nb, model1, subclass>>
    /\ UNCHANGED lcVars
    /\ UNCHANGED notSes

\* ln_posterior(pars, t, flux, flux_err) as a whole: -inf when the prior is
\* not finite; else -inf when the value of ln_likelihood is not finite and
\* lp + that value otherwise (sum: the two terms are kept)
ln_posterior(p, t, y, y_err) ==
    LET prior == ln_prior(ParsAsFloats(p))
    IN  IF GiveUp(prior) THEN [k |-> "-inf", lp |-> prior, ll |-> <<>>]
        ELSE [k |-> "sum", lp |-> prior, ll |-> <<ln_likelihood(p, t, y, y_err)>>]

\* ln_posterior(pars, time, flux, flux_err)
CallLnPosterior ==
    /\ nb = "gp" /\ lcPc = "clipped"
    /\ \E p \in GpParVecs :
          /\ sesCall' = <<"ln_posterior", p>>
          /\ sesRet' = <<ln_posterior(p, time, flux, flux_err)>>
          /\ Keep("ln_posterior", p, sesRet')
    /\ UNCHANGED <<nb, model1, subclass>>
    /\ UNCHANGED lcVars
    /\ UNCHANGED notSes

---------------------------------------------------------------------------
(***************************************************************************)
(* The sampling cells.  emcee's EnsembleSampler keeps a chain of shape     *)
(* (n_walkers, iterations, n_dim): run_mcmc(start, N) advances every       *)
(* walker N times from the positions start, appends the N new positions    *)
(* of every walker to the chain and returns the last positions; reset()    *)
(* empties the chain.  The chain is kept run by run: one entry             *)
(*   [phase, start, steps, end]                                            *)
(* stands for the steps iterations that one run_mcmc call appended, phase  *)
(* naming the statement that made the call.  The positions of a whole      *)
(* ensemble of walkers are one number.                                     *)
(***************************************************************************)
Positions == 0..MaxPos

\* the four samplers of the notebooks: walkers, burn-in steps, production steps
Samplers ==
    { [name |-> "model1", n_walkers |-> 16, burn |-> 1024, prod |-> 4096],
      [name |-> "model2", n_walkers |-> 32, burn |-> 1024, prod |-> 4096],
      [name |-> "gp", n_walkers |-> 32, burn |-> 256, prod |-> 256],
      [name |-> "gp2", n_walkers |-> 32, burn |-> 256, prod |-> 256] }

\* The function a sampler is given to evaluate the log-probability of a
\* walker: model1 and model2 raise TypeError as Model1's and Model2's
\* methods stand (they return None) and return a float once these are
\* filled in; the Gaussian-process ln_posterior and ln_posterior2 return.
LnPostFns(c) ==
    IF c.name \in {"model1", "model2"} THEN {"raises", "returns"} ELSE {"returns"}

\* sampler.chain.shape[1]: the number of stored iterations
RECURSIVE StepsFrom(_, _)
StepsFrom(chain, i) ==
    IF i > Len(chain) THEN 0 ELSE chain[i].steps + StepsFrom(chain, i + 1)

Iterations(chain) == StepsFrom(chain, 1)

\* sampler.run_mcmc(start, N), ending at the positions end
run_mcmc(smp, phase, start, N, end) ==
    [smp EXCEPT !.chain =
        Append(@, [phase |-> phase, start |-> start, steps |-> N, end |-> end])]

\* sampler.reset()
reset_skipped(smp) == smp

reset(smp) == [smp EXCEPT !.chain = <<>>]

\* What the name pos is bound to when a sampler is made (-1: not assigned).
\* The first sampler of a notebook (model1, gp) is made before any cell
\* assigns pos.  The second one is made after the first sampler's cell:
\* pos still holds the positions its burn-in returned, which it always did
\* for gp; for model1 it did not when model1 raised, and pos is then not
\* assigned if the cells were run on.
PosWhenMade(c) ==
    IF c.name \in {"model1", "gp"} THEN {-1}
    ELSE IF c.name = "gp2" THEN Positions
    ELSE {-1} \cup Positions

\* sampler = emcee.EnsembleSampler(...); p0 = emcee.utils.sample_ball(...),
\* for one of the samplers S
SmpMade(S) ==
    /\ smpPc = "made"
    /\ \E c \in S : \E f \in LnPostFns(c) :
          /\ sampler = [cfg |-> c, lnpostfn |-> f, chain |-> <<>>]
          /\ pos \in PosWhenMade(c)
    /\ p0 \in Positions

SmpInit == SmpMade(Samplers)

\* No sampler is made.
SmpIdle ==
    /\ smpPc = "idle"
    /\ sampler = [cfg |-> [name |-> "none", n_walkers |-> 0, burn |-> 0, prod |-> 0],
                  lnpostfn |-> "none", chain |-> <<>>]
    /\ p0 = -1
    /\ pos = -1

\* pos,_,_ = sampler.run_mcmc(p0, 1024)        (256 in the GP notebook)
\* (run_mcmc first evaluates the log-probability of the walkers at p0: when
\* that raises, the cell stops with nothing stored and pos as it was, and
\* the cells after it are not run)
BurnIn ==
    /\ smpPc = "made"
    /\ IF sampler.lnpostfn = "raises"
       THEN /\ sampler' = sampler
            /\ pos' = pos
            /\ smpPc' = "error"
       ELSE /\ \E end \in Positions :
                  /\ sampler' = run_mcmc(sampler, "burn-in", p0, sampler.cfg.burn, end)
                  /\ pos' = end
            /\ smpPc' = "burned"
    /\ UNCHANGED p0
    /\ UNCHANGED notSmp

\* sampler.reset()
Reset ==
    /\ smpPc = "burned"
    /\ sampler' = reset(sampler)
    /\ smpPc' = "reset"
    /\ UNCHANGED <<p0, pos>>
    /\ UNCHANGED notSmp

\* _ = sampler.run_mcmc(pos, 4096)             (256 in the GP notebook)
Production ==
    /\ smpPc = "reset"
    /\ \E end \in Positions :
          sampler' = run_mcmc(sampler, "production", pos, sampler.cfg.prod, end)
    /\ smpPc' = "produced"
    /\ UNCHANGED <<p0, pos>>
    /\ UNCHANGED notSmp

---------------------------------------------------------------------------
(***************************************************************************)
(* PCA notebook: the cells that diagonalise the covariance matrix of X,    *)
(* sort, project and compute the cumulative explained variance.  Matrices  *)
(* are sequences of rows.  The covariance matrix is kept multiplied by     *)
(* N (N - 1), a positive whole number, so that its entries are whole       *)
(* numbers; its eigenvalues are those of np.cov(X.T) multiplied alike and  *)
(* its eigenvectors are the same.                                          *)
(***************************************************************************)
Dims == {2, 3}

Perms(d) == { f \in [1..d -> 1..d] : \A i, j \in 1..d : f[i] = f[j] => i = j }

\* the sum of f[1] .. f[n]
RECURSIVE SumTo(_, _)
SumTo(f, n) == IF n = 0 THEN 0 ELSE f[n] + SumTo(f, n - 1)

\* a @ b for matrices
MatMul(a, b) ==
    [n \in 1..Len(a) |->
        [j \in 1..Len(b[1]) |-> SumTo([k \in 1..Len(b) |-> a[n][k] * b[k][j]], Len(b))]]

\* the data sets: along feature i the objects lie at +amp[i] and -amp[i]
DataOf(amp) ==
    [n \in 1..(2 * Len(amp)) |->
        [i \in 1..Len(amp) |->
            IF n = 2 * i - 1 THEN amp[i] ELSE IF n = 2 * i THEN 0 - amp[i] ELSE 0]]

\* N (N - 1) np.cov(X.T): N sum_n x_ni x_nj - (sum_n x_ni) (sum_n x_nj)
ScaledCov(x) ==
    LET N == Len(x)
        d == Len(x[1])
        colsum == [i \in 1..d |-> SumTo([n \in 1..N |-> x[n][i]], N)]
    IN  [i \in 1..d |->
            [j \in 1..d |->
                N * SumTo([n \in 1..N |-> x[n][i] * x[n][j]], N) - colsum[i] * colsum[j]]]

\* the unit vectors along the axes and their negatives, as columns
UnitVectors(d) ==
    { [i \in 1..d |-> IF i = a THEN sgn ELSE 0] : a \in 1..d, sgn \in {1, 0 - 1} }

\* column j of a matrix
Column(m, j) == [i \in 1..Len(m) |-> m[i][j]]

\* np.linalg.eig(Cov): eigenvalues w and a matrix v whose column j is a
\* normalised eigenvector of w[j]; the order of the pairs is not specified
IsEig(c, w, v) ==
    LET d == Len(c)
    IN  /\ \A j \in 1..d :
              /\ Column(v, j) \in UnitVectors(d)
              /\ \A i \in 1..d :
                    SumTo([k \in 1..d |-> c[i][k] * v[k][j]], d) = w[j] * v[i][j]
        /\ \A j, k \in 1..d : (j # k) => \E i \in 1..d : (v[i][j] = 0) # (v[i][k] = 0)

\* eig_vals.argsort(): indices that put the values in ascending order (the
\* order among equal values is the sort's own)
ArgSorts(w) ==
    { f \in Perms(Len(w)) : \A k \in 1..(Len(w) - 1) : w[f[k]] <= w[f[k + 1]] }

\* np.cumsum(w)
CumSum(w) == [k \in 1..Len(w) |-> SumTo(w, k)]

NoMatrix == <<>>

\* X = np.loadtxt('../data/correlated_data.csv', delimiter=',')
PcaInit ==
    /\ pcaPc = "loaded"
    /\ \E d \in Dims : X \in { DataOf(amp) : amp \in [1..d -> 1..MaxAmp] }
    /\ eig_vals = <<>>
    /\ eig_vecs = NoMatrix
    /\ sort_idx = <<>>
    /\ Y = NoMatrix
    /\ cev = [num |-> <<>>, den |-> 0]

\* The PCA notebook's cells are not run.
PcaIdle ==
    /\ pcaPc = "idle"
    /\ X = NoMatrix
    /\ eig_vals = <<>>
    /\ eig_vecs = NoMatrix
    /\ sort_idx = <<>>
    /\ Y = NoMatrix
    /\ cev = [num |-> <<>>, den |-> 0]

\* the matrix whose column j is the unit vector along axis q[j], times sg[j]
AxisMatrix(q, sg) ==
    [i \in 1..Len(q) |-> [j \in 1..Len(q) |-> IF i = q[j] THEN sg[j] ELSE 0]]

\* Cov = np.cov(X.T); eig_vals, eig_vecs = np.linalg.eig(Cov)
EigCell ==
    /\ pcaPc = "loaded"
    /\ LET c == ScaledCov(X)
           d == Len(c)
       IN  \E q \in Perms(d), sg \in [1..d -> {1, 0 - 1}] :
              /\ IsEig(c, [j \in 1..d |-> c[q[j]][q[j]]], AxisMatrix(q, sg))
              /\ eig_vals' = [j \in 1..d |-> c[q[j]][q[j]]]
              /\ eig_vecs' = AxisMatrix(q, sg)
    /\ pcaPc' = "eig"
    /\ UNCHANGED <<X, sort_idx, Y, cev>>
    /\ UNCHANGED notPca

\* idx = eig_vals.argsort(); Y = X[:,idx] @ eig_vecs[idx]
ProjectCell ==
    /\ pcaPc = "eig"
    /\ sort_idx' \in ArgSorts(eig_vals)
    /\ Y' = MatMul([n \in 1..Len(X) |-> [k \in 1..Len(sort_idx') |-> X[n][sort_idx'[k]]]],
                   [k \in 1..Len(sort_idx') |-> eig_vecs[sort_idx'[k]]])
    /\ pcaPc' = "projected"
    /\ UNCHANGED <<X, eig_vals, eig_vecs, cev>>
    /\ UNCHANGED notPca

\* np.cumsum(eig_vals) / np.sum(eig_vals)
CevCell ==
    /\ pcaPc = "projected"
    /\ cev' = [num |-> CumSum(eig_vals), den |-> SumTo(eig_vals, Len(eig_vals))]
    /\ pcaPc' = "cev"
    /\ UNCHANGED <<X, eig_vals, eig_vecs, sort_idx, Y>>
    /\ UNCHANGED notPca

---------------------------------------------------------------------------
(***************************************************************************)
(* PCA notebook: the eigenfaces cells.  An explained-variance ratio is a   *)
(* whole number of twentieths, so that 0.95 is 19 twentieths.              *)
(***************************************************************************)
RatioUnit == 20
Threshold == 19

\* what PCA.fit leaves in explained_variance_ratio_: the ratios of the
\* components kept, largest first, none negative, together at most 1
RatioSeqs ==
    { r \in SeqsUpTo(0..RatioUnit, MaxComp) :
        /\ Len(r) >= 1
        /\ \A k \in 1..(Len(r) - 1) : r[k] >= r[k + 1]
        /\ SumTo(r, Len(r)) <= RatioUnit }

\* PCA(n).fit(d): the fitted object, r its explained_variance_ratio_
PCA_fit(n, d, r) ==
    [n_components |-> n, fit_on |-> d, explained_variance_ratio_ |-> r]

\* np.abs(a - c)
AbsDiff(a, c) == [k \in 1..Len(a) |-> Abs(a[k] - c)]

\* np.argmin(np.abs(c - t)) for cumulative sums c computed in floating
\* point: the index, counted from 0, of the first least distance.  Two
\* equal sums are the same float and the first wins; two different sums
\* equally far from t (one below, one above) are told apart by the rounding
\* of the sums, which the ratios in whole units do not determine: either
\* may be the one found.
ArgMinRounded(c, t) ==
    { k - 1 : k \in { j \in 1..Len(c) :
                        /\ \A m \in 1..Len(c) : AbsDiff(c, t)[j] <= AbsDiff(c, t)[m]
                        /\ \A m \in 1..(j - 1) : c[m] # c[j] } }

FaceInit ==
    /\ facePc = "start"
    /\ pca = PCA_fit(0, "nothing", <<>>)
    /\ n95 = -1

\* The eigenfaces cells are not run.
FaceIdle ==
    /\ facePc = "idle"
    /\ pca = PCA_fit(0, "nothing", <<>>)
    /\ n95 = -1

\* pca = PCA(256); pca.fit(faces.data)
FitFaces ==
    /\ facePc = "start"
    /\ \E r \in RatioSeqs : pca' = PCA_fit(256, "faces.data", r)
    /\ facePc' = "fitted"
    /\ UNCHANGED n95
    /\ UNCHANGED notFace

\* np.argmin(np.abs(np.cumsum(pca.explained_variance_ratio_) - 0.95))
ArgminCell ==
    /\ facePc = "fitted"
    /\ n95' \in ArgMinRounded(CumSum(pca.explained_variance_ratio_), Threshold)
    /\ facePc' = "counted"
    /\ UNCHANGED pca
    /\ UNCHANGED notFace

---------------------------------------------------------------------------
(***************************************************************************)
(* PCA notebook: the cells after the eigenfaces cells, run top to bottom   *)
(* with the exercise cells as they stand (comments only).  The name pca    *)
(* inside do_pca is local to the function; the cells' pca is the global.   *)
(***************************************************************************)
\* for n in [64, 128, 256, 512]
Reconstructions == <<64, 128, 256, 512>>

\* the ratios of the PCA fitted on all_face_data
SkyRatioSeqs == { r \in RatioSeqs : Len(r) <= MaxSkyComp }

\* one fit call: PCA(n).fit(data), the name pca of scope sc bound to it
FitCall(n, d, sc) == [n_components |-> n, fit_on |-> d, scope |-> sc]

\* the eigenfaces cells still to run
SkyInit ==
    /\ skyPc = "ready"
    /\ all_face_data = <<>>
    /\ titles = <<>>
    /\ fits = <<>>
    /\ sdss_images = ""
    /\ sky_plot = <<>>

\* These cells are not run.
SkyIdle ==
    /\ skyPc = "idle"
    /\ all_face_data = <<>>
    /\ titles = <<>>
    /\ fits = <<>>
    /\ sdss_images = ""
    /\ sky_plot = <<>>

\* other_faces = [...]; all_face_data = np.vstack((faces.data, other_faces))
StackCell ==
    /\ skyPc = "ready" /\ facePc = "counted"
    /\ all_face_data' = <<"faces.data", "other_faces">>
    /\ skyPc' = "stacked"
    /\ UNCHANGED <<titles, fits, sdss_images, sky_plot>>
    /\ UNCHANGED faceVars
    /\ UNCHANGED notSky

\* def do_pca(n_components): ... pca = PCA(n_components);
\* pca.fit(all_face_data) ... fig.suptitle(...format(pca.n_components))
\* for n in [64, 128, 256, 512]: do_pca(n)
DoPcaCell ==
    /\ skyPc = "stacked"
    /\ fits' = fits \o [k \in 1..Len(Reconstructions) |->
                          FitCall(Reconstructions[k], "all_face_data", "do_pca")]
    /\ titles' = Reconstructions
    /\ skyPc' = "reconstructed"
    /\ UNCHANGED <<all_face_data, sdss_images, sky_plot>>
    /\ UNCHANGED faceVars
    /\ UNCHANGED notSky

\* pca = PCA(64); pca.fit(all_face_data)
CompressCell ==
    /\ skyPc = "reconstructed"
    /\ \E r \in SkyRatioSeqs : pca' = PCA_fit(64, "all_face_data", r)
    /\ fits' = Append(fits, FitCall(64, "all_face_data", "global"))
    /\ skyPc' = "compressed"
    /\ UNCHANGED <<all_face_data, titles, sdss_images, sky_plot>>
    /\ UNCHANGED <<facePc, n95>>
    /\ UNCHANGED notSky

\* data = np.load('../data/sdss_images.npz'); sdss_images = data['arr_0']
LoadSdssCell ==
    /\ skyPc = "compressed"
    /\ sdss_images' = "sdss_images.npz:arr_0"
    /\ skyPc' = "loaded"
    /\ UNCHANGED <<all_face_data, titles, fits, sky_plot>>
    /\ UNCHANGED faceVars
    /\ UNCHANGED notSky

\* the cell as filled in by a solution: pca = PCA(64); pca.fit(sdss_images)
TodoFitCell_filled ==
    /\ skyPc = "loaded"
    /\ \E r \in SkyRatioSeqs : pca' = PCA_fit(64, "sdss_images", r)
    /\ fits' = Append(fits, FitCall(64, "sdss_images", "global"))
    /\ skyPc' = "todo1"
    /\ UNCHANGED <<all_face_data, titles, sdss_images, sky_plot>>
    /\ UNCHANGED <<facePc, n95>>
    /\ UNCHANGED notSky

\* # TODO: FILL IN HERE
TodoFitCell ==
    /\ skyPc = "loaded"
    /\ skyPc' = "todo1"
    /\ UNCHANGED <<all_face_data, titles, fits, sdss_images, sky_plot>>
    /\ UNCHANGED faceVars
    /\ UNCHANGED notSky

\* # TODO: fill in here
TodoPlotCell ==
    /\ skyPc = "todo1"
    /\ skyPc' = "todo2"
    /\ UNCHANGED <<all_face_data, titles, fits, sdss_images, sky_plot>>
    /\ UNCHANGED faceVars
    /\ UNCHANGED notSky

\* plt.plot(np.cumsum(pca.explained_variance_ratio_), marker='')
SkyPlotCell ==
    /\ skyPc = "todo2"
    /\ sky_plot' = CumSum(pca.explained_variance_ratio_)
    /\ skyPc' = "plotted"
    /\ UNCHANGED <<all_face_data, titles, fits, sdss_images>>
    /\ UNCHANGED faceVars
    /\ UNCHANGED notSky

---------------------------------------------------------------------------
(***************************************************************************)
(* Marginalization notebook, case 2: the cells after the sampling cell     *)
(* that average the inlier probability of every data point over samples    *)
(* of the chain, classify the points and plot them.  sampler.flatchain is  *)
(* the chain with the walkers' iterations laid one after another:          *)
(* n_walkers * iterations rows.  Probabilities are counted in quarters.    *)
(* The cells are reached only when the sampling cell has run through,      *)
(* that is with Model2's methods filled in: the inlier probability         *)
(* exp(ll_in - logaddexp(ll_in, ll_out)) they give a data point is one of  *)
(* the inputs, the same for every sample.                                  *)
(***************************************************************************)
K == 65536
ProbUnit == 4
Half == 2

\* sampler.flatchain.shape[0]
FlatChainRows_onewalker(smp) == Iterations(smp.chain)

FlatChainRows(smp) == smp.cfg.n_walkers * Iterations(smp.chain)

\* post_prob < 0.5
OutlierMask_le(pp) == [n \in 1..Len(pp) |-> pp[n] <= Half]

OutlierMask(pp) == [n \in 1..Len(pp) |-> pp[n] < Half]

\* ~outlier_idx
Not(mask) == [n \in 1..Len(mask) |-> ~mask[n]]

\* tbl2 = ascii.read("case2.csv"); model2 = Model2(...); sampler made
OutInit ==
    /\ outPc = "ready"
    /\ \E n \in 0..MaxData : tbl2 = [r \in 1..n |-> r]
    /\ half_shown = -1
    /\ loop_i = -1
    /\ post_prob = <<>>
    /\ outlier_idx = <<>>
    /\ plotted = [blue |-> <<>>, red |-> <<>>]

\* The outlier cells are not run.
OutIdle ==
    /\ outPc = "idle"
    /\ tbl2 = <<>>
    /\ half_shown = -1
    /\ loop_i = -1
    /\ post_prob = <<>>
    /\ outlier_idx = <<>>
    /\ plotted = [blue |-> <<>>, red |-> <<>>]

\* sampler.flatchain.shape[0]//2
HalfCell ==
    /\ outPc = "ready" /\ smpPc = "produced"
    /\ half_shown' = FlatChainRows(sampler) \div 2
    /\ outPc' = "half"
    /\ UNCHANGED <<tbl2, loop_i, post_prob, outlier_idx, plotted>>
    /\ UNCHANGED smpVars
    /\ UNCHANGED notOut

\* K = 65536; post_prob = np.zeros(len(tbl2));
\* for i in range(K): theta = sampler.flatchain[i]; ...; post_prob += ...
\* post_prob /= K
\* (flatchain[i] raises IndexError at the first i that is not a row: the
\* cell stops there, post_prob holding the sum so far)
LoopCell ==
    /\ outPc = "half"
    /\ \E q \in [1..Len(tbl2) -> 0..ProbUnit] :
          IF K <= FlatChainRows(sampler)
          THEN /\ loop_i' = K - 1
               /\ post_prob' = [n \in 1..Len(tbl2) |-> (K * q[n]) \div K]
               /\ outPc' = "averaged"
          ELSE /\ loop_i' = FlatChainRows(sampler)
               /\ post_prob' = [n \in 1..Len(tbl2) |-> FlatChainRows(sampler) * q[n]]
               /\ outPc' = "error"
    /\ UNCHANGED <<tbl2, half_shown, outlier_idx, plotted>>
    /\ UNCHANGED smpVars
    /\ UNCHANGED notOut

\* outlier_idx = post_prob < 0.5 # <50% chance
ClassifyCell ==
    /\ outPc = "averaged"
    /\ outlier_idx' = OutlierMask(post_prob)
    /\ outPc' = "classified"
    /\ UNCHANGED <<tbl2, half_shown, loop_i, post_prob, plotted>>
    /\ UNCHANGED smpVars
    /\ UNCHANGED notOut

\* plt.errorbar(tbl2['time'][~outlier_idx], ...)
\* plt.errorbar(tbl2['time'][outlier_idx], ..., color='r')
PlotCell ==
    /\ outPc = "classified"
    /\ plotted' = [blue |-> Select(tbl2, Not(outlier_idx)),
                   red |-> Select(tbl2, outlier_idx)]
    /\ outPc' = "plotted"
    /\ UNCHANGED <<tbl2, half_shown, loop_i, post_prob, outlier_idx>>
    /\ UNCHANGED smpVars
    /\ UNCHANGED notOut

---------------------------------------------------------------------------
(***************************************************************************)
(* Specifications.                                                         *)
(***************************************************************************)
ShNext == Usage \/ AssignArgs \/ Wget

InitScript ==
    /\ ShInit /\ PmInit /\ MixInit /\ GpInit /\ LikeInit /\ LcIdle
    /\ SesIdle /\ SmpIdle /\ PcaIdle /\ FaceIdle
    /\ OutIdle /\ SkyIdle

SpecScript == InitScript /\ [][ShNext]_vars

PmNext == PmCall \/ PmPrior \/ PmLikelihood \/ PmReturn \/ PmNextCall

\* The notebooks' functions are defined and nothing has been called; the
\* script and the light-curve cells are not run.
InitNotebook ==
    /\ PmInit /\ ShIdle /\ MixInit /\ GpInit /\ LikeInit /\ LcIdle
    /\ SesIdle /\ SmpIdle /\ PcaIdle /\ FaceIdle
    /\ OutIdle /\ SkyIdle

SpecProb == InitNotebook /\ [][PmNext]_vars

MixNext == MixLnLikelihood \/ MixNextCall

SpecMix == InitNotebook /\ [][MixNext]_vars

GpNext == GpCall \/ GpPrior \/ GpLikelihood \/ GpNextCall

SpecGP == InitNotebook /\ [][GpNext]_vars

LikeNext == LnLikelihoodCall \/ LikeNextCall

SpecGPLike == InitNotebook /\ [][LikeNext]_vars

LcNext == FilterCell \/ StatsCell \/ ClipCell

InitClip ==
    /\ LcInit /\ ShIdle /\ PmInit /\ MixInit /\ GpInit /\ LikeInit
    /\ SesIdle /\ SmpIdle /\ PcaIdle /\ FaceIdle
    /\ OutIdle /\ SkyIdle

SpecClip == InitClip /\ [][LcNext]_vars

SesNext ==
    \/ FilterCell \/ StatsCell \/ ClipCell
    \/ CallModel1 \/ CallLnLikelihood \/ CallLnPrior \/ CallLnPosterior

\* One of the two notebooks is open, its data loaded, no call made yet.
InitSession ==
    /\ ShIdle /\ PmInit /\ MixInit /\ GpInit /\ LikeInit /\ SmpIdle /\ PcaIdle
    /\ FaceIdle /\ OutIdle /\ SkyIdle
    /\ (MargNotebook \/ GpNotebook)

SpecSession == InitSession /\ [][SesNext]_vars

SmpNext == BurnIn \/ Reset \/ Production

InitSampler ==
    /\ SmpInit /\ ShIdle /\ PmInit /\ MixInit /\ GpInit /\ LikeInit /\ LcIdle
    /\ SesIdle /\ PcaIdle /\ FaceIdle /\ OutIdle /\ SkyIdle

SpecSampler == InitSampler /\ [][SmpNext]_vars

\* The posterior functions of the notebook that is open are called.
PostNext ==
    \/ PmCall \/ PmPrior \/ PmLikelihood \/ PmReturn \/ PmNextCall
    \/ GpCall \/ GpPrior \/ GpLikelihood \/ GpNextCall

InitPosteriors ==
    /\ NoSession({"marginalization", "gp"})
    /\ PmInit /\ ShIdle /\ MixInit /\ GpInit /\ LikeInit /\ LcIdle /\ SmpIdle
    /\ PcaIdle /\ FaceIdle /\ OutIdle /\ SkyIdle

SpecPosteriors == InitPosteriors /\ [][PostNext]_vars

PcaNext == EigCell \/ ProjectCell \/ CevCell

InitPca ==
    /\ PcaInit /\ ShIdle /\ PmInit /\ MixInit /\ GpInit /\ LikeInit /\ LcIdle
    /\ SesIdle /\ SmpIdle /\ FaceIdle /\ OutIdle /\ SkyIdle

SpecPca == InitPca /\ [][PcaNext]_vars

FaceNext == FitFaces \/ ArgminCell

InitFaces ==
    /\ FaceInit /\ ShIdle /\ PmInit /\ MixInit /\ GpInit /\ LikeInit /\ LcIdle
    /\ SesIdle /\ SmpIdle /\ PcaIdle /\ OutIdle /\ SkyIdle

SpecFaces == InitFaces /\ [][FaceNext]_vars

OutNext ==
    \/ BurnIn \/ Reset \/ Production
    \/ HalfCell \/ LoopCell \/ ClassifyCell \/ PlotCell

\* Case 2 of the marginalization notebook: model2's sampler made, the
\* sampling cell and the outlier cells still to run.
InitOutliers ==
    /\ SmpMade({ c \in Samplers : c.name = "model2" })
    /\ OutInit
    /\ ShIdle /\ PmInit /\ MixInit /\ GpInit /\ LikeInit /\ LcIdle
    /\ SesIdle /\ PcaIdle /\ FaceIdle /\ SkyIdle

SpecOutliers == InitOutliers /\ [][OutNext]_vars

SkyNext ==
    \/ FitFaces \/ ArgminCell
    \/ StackCell \/ DoPcaCell \/ CompressCell \/ LoadSdssCell
    \/ TodoFitCell \/ TodoPlotCell \/ SkyPlotCell

\* The PCA notebook from the eigenfaces fit to its last plot cell.
InitSky ==
    /\ FaceInit /\ SkyInit
    /\ ShIdle /\ PmInit /\ MixInit /\ GpInit /\ LikeInit /\ LcIdle
    /\ SesIdle /\ SmpIdle /\ PcaIdle /\ OutIdle

SpecSky == InitSky /\ [][SkyNext]_vars

---------------------------------------------------------------------------
(***************************************************************************)
(* Properties of the shell script (SpecScript).                            *)
(***************************************************************************)
\* C1: with any number of arguments other than 3 the script prints the usage
\* line, exits with status 0 and never reaches wget: no request is made and
\* no file is written.
C1_UsageOnWrongArgCount ==
    Len(argv) # 3 =>
        /\ shPc # "wget"
        /\ requests = <<>>
        /\ outFile = <<>>
        /\ shPc = "exited" => (stdout = <<UsageLine>> /\ exitStatus = 0)

C1_Witness == Len(argv) = 4 /\ shPc = "exited" /\ stdout = <<UsageLine>>

\* C2: with exactly 3 arguments the script has, when it ends, issued exactly
\* one GET, whose query carries $1 as ra and $2 as dec, and wget writes to
\* the file named by $3.
C2_SingleGet ==
    (Len(argv) = 3 /\ shPc = "exited") =>
        /\ requests = <<UrlText(argv[1], argv[2])>>
        /\ outFile = argv[3]

---------------------------------------------------------------------------
(***************************************************************************)
(* Properties of ProbModel (SpecProb).                                     *)
(***************************************************************************)
\* ln_prior(pars) + sum(ln_likelihood(pars)) of the call at hand
PmTotal == FAdd(pmPrior, NpSum(pmLike))

\* C4: ln_posterior returns -inf whenever ln_prior returns -inf or
\* ln_prior + sum(ln_likelihood) is NaN.
C4_NegInfOnInvalid ==
    PmDone => ((pmPrior = NInf \/ np_isnan(PmTotal)) => pmRet = NInf)

\* C5: ln_posterior returns a finite number or -inf, never NaN and never
\* +inf, whatever ln_prior and ln_likelihood return.
C5_FiniteOrNegInf == PmDone => pmRet.k \in {"fin", "-inf"}

\* C8: when the log-prior is finite and the total is not NaN, ln_posterior
\* returns ln_prior + sum of ln_likelihood over the data; and __call__
\* returns what ln_posterior returned.
C8_PosteriorIsSum ==
    PmDone =>
        /\ (np_isfinite(pmPrior) /\ ~np_isnan(PmTotal)) => pmRet = PmTotal
        /\ pmEntry = "__call__" => pmCallRet = pmRet

C8_Witness ==
    /\ PmDone
    /\ pmEntry = "__call__"
    /\ pmPrior = Fin(1)
    /\ pmLike = <<Fin(1), Fin(0 - 2)>>
    /\ pmCallRet = Fin(0)

---------------------------------------------------------------------------
(***************************************************************************)
(* Properties of Model2.ln_likelihood (SpecMix).                           *)
(***************************************************************************)
\* Likelihoods (not logarithms): a number v / 2^d, infinity or NaN.
Lik(v, d) == [k |-> "num", v |-> v, d |-> d]
LikInf == [k |-> "inf", v |-> 0, d |-> 0]
LikNaN == [k |-> "notanumber", v |-> 0, d |-> 0]

\* exp of a log value
ExpOf(x) ==
    IF x.k = "ln" THEN Lik(x.v, x.d)
    ELSE IF x.k = "-inf" THEN Lik(0, 0)
    ELSE IF x.k = "+inf" THEN LikInf
    ELSE LikNaN

\* log of a likelihood
LogOfLik(l) ==
    IF l.k = "num" THEN (IF l.v = 0 THEN NInf ELSE LnQ(l.v, l.d))
    ELSE IF l.k = "inf" THEN PInf
    ELSE NaN

\* the sum of two likelihoods
LikPlus(a, b) ==
    IF a.k = "notanumber" \/ b.k = "notanumber" THEN LikNaN
    ELSE IF a.k = "inf" \/ b.k = "inf" THEN LikInf
    ELSE Lik(a.v * 2^(MaxOf(a.d, b.d) - a.d) + b.v * 2^(MaxOf(a.d, b.d) - b.d),
             MaxOf(a.d, b.d))

\* per datum log(exp(ll_in) + exp(ll_out)), summed over the data
LogSumExpOfBoth ==
    LnSum([i \in 1..Len(ll_in.a) |->
             LogOfLik(LikPlus(ExpOf(ll_in.a[i]), ExpOf(ll_out.a[i])))])

\* C3 as stated: for every parameter vector Model2.ln_likelihood is, per
\* datum, log(exp(ll_in) + exp(ll_out)), summed over the data.
C3_MixtureIsLogSumExp ==
    mixPc = "done" =>
        /\ ll_in # None /\ ll_out # None
        /\ mixRet = LogSumExpOfBoth

\* C3, amended: when ln_likelihood_inlier and ln_likelihood_outlier both
\* return an array, Model2.ln_likelihood is, per datum,
\* log(exp(ll_in) + exp(ll_out)), summed over the data; when either returns
\* None, as both do as they stand, the call raises TypeError.
C3_MixtureIsLogSumExpOfArrays ==
    mixPc = "done" =>
        IF ll_in = None \/ ll_out = None
        THEN mixRet = TypeError
        ELSE mixRet = LogSumExpOfBoth

\* two data points with likelihoods 1/2 + 3/2 and 1 + 0: ln 2 + ln 1
C3_Witness ==
    /\ mixPc = "done"
    /\ ll_in = Array(<<LnQ(1, 1), LnOf(1)>>)
    /\ ll_out = Array(<<LnQ(3, 1), NInf>>)
    /\ mixRet = LnOf(2)

---------------------------------------------------------------------------
(***************************************************************************)
(* Properties of the Gaussian-process ln_prior and ln_posterior (SpecGP).  *)
(***************************************************************************)
\* f_0 < 0 or f_0 > 1e10 or ln_a < -10 or ln_a > 10 or ln_b < -10 or ln_b > 10
OutOfRange(pars) ==
    \/ Lt(pars[1], F0_LO) \/ Gt(pars[1], F0_HI)
    \/ \E i \in {2, 3} : Lt(pars[i], LN_LO) \/ Gt(pars[i], LN_HI)

\* C6: ln_prior returns -inf exactly for the out-of-range parameter vectors
\* and 0 for every other; the bounds themselves are in range.
\* every parameter is a number within its bounds, the bounds included
InBox(pars) ==
    /\ \A i \in 1..3 : pars[i].k = "fin"
    /\ F0_LO <= pars[1].v /\ pars[1].v <= F0_HI
    /\ \A i \in {2, 3} : LN_LO <= pars[i].v /\ pars[i].v <= LN_HI

C6_PriorIsBoxIndicator ==
    (gpFn = "ln_posterior" /\ gpPc \in {"like", "done"}) =>
        /\ lp = (IF OutOfRange(gpPars) THEN NInf ELSE Fin(0))
        /\ InBox(gpPars) => lp = Fin(0)
        /\ (\E i \in 1..3 : np_isinf(gpPars[i])) => lp = NInf

C6_Witness ==
    /\ gpFn = "ln_posterior" /\ gpPc = "like"
    /\ gpPars = <<Fin(F0_HI), Fin(LN_LO), Fin(LN_HI)>>
    /\ lp = Fin(0)

\* C7: ln_posterior and ln_posterior2 return -inf when the log-prior or the
\* log-likelihood is not finite and log-prior + log-likelihood otherwise;
\* the result is always finite or -inf.
C7_PosteriorGuards ==
    gpPc = "done" =>
        /\ gpRet = (IF ~np_isfinite(lp) THEN NInf
                    ELSE IF ~np_isfinite(ll) THEN NInf
                    ELSE FAdd(lp, ll))
        /\ gpRet.k \in {"fin", "-inf"}

C7_Witness ==
    /\ gpPc = "done" /\ gpFn = "ln_posterior2"
    /\ lp = Fin(0) /\ ll = PInf /\ gpRet = NInf

---------------------------------------------------------------------------
(***************************************************************************)
(* Properties of the Gaussian-process ln_likelihood (SpecGPLike).          *)
(***************************************************************************)
\* C_ij = sigma_i^2 delta_ij + k(t_i, t_j) with a = exp(ln_a), b = exp(ln_b)
FormulaC(t, y_err, ln_a, ln_b) ==
    [i \in 1..Len(t) |->
        [j \in 1..Len(t) |->
            [var |-> IF i = j THEN y_err[i] * y_err[i] ELSE 0,
             k |-> [amp |-> [exp |-> ln_a], len |-> [exp |-> ln_b],
                    d2 |-> (t[i] - t[j]) * (t[i] - t[j])]]]]

\* C9: ln_likelihood returns -1/2 r^T C^-1 r - 1/2 ln det C - (N/2) ln 2 pi
\* with r = flux - f_0 and N the number of data points.
C9_LikelihoodIsFormula ==
    likePc = "done" =>
        LET pars == likeArgs[1]
            t == likeArgs[2]
            y == likeArgs[3]
            y_err == likeArgs[4]
            C == FormulaC(t, y_err, pars[2], pars[3])
        IN  likeRet = [r |-> [i \in 1..Len(y) |-> y[i] - pars[1]],
                       quadC |-> C, detC |-> C, n2pi |-> Len(y)]

\* C17: the covariance matrix of ln_likelihood is symmetric; its diagonal
\* entry i is flux_err_i^2 + a^2 (the kernel at distance 0) and its entry
\* (i, j), i # j, is a^2 exp(-(t_i - t_j)^2 / (2 b^2)) with no error-bar
\* term, where a = exp(ln_a) and b = exp(ln_b).
C17_CovarianceEntries ==
    likePc = "done" =>
        LET pars == likeArgs[1]
            t == likeArgs[2]
            y_err == likeArgs[4]
            C == likeRet.quadC
            a == [exp |-> pars[2]]
            b == [exp |-> pars[3]]
        IN  /\ likeRet.detC = C
            /\ Len(C) = Len(t)
            /\ \A i \in 1..Len(t) :
                  /\ Len(C[i]) = Len(t)
                  /\ C[i][i] = [var |-> y_err[i] * y_err[i],
                                k |-> [amp |-> a, len |-> b, d2 |-> 0]]
                  /\ \A j \in 1..Len(t) :
                        /\ C[i][j] = C[j][i]
                        /\ (i # j) =>
                              C[i][j] = [var |-> 0,
                                         k |-> [amp |-> a, len |-> b,
                                                d2 |-> (t[i] - t[j]) * (t[i] - t[j])]]

\* two points at different times with different error bars
C17_Witness ==
    /\ likePc = "done"
    /\ Len(likeArgs[2]) = 2
    /\ likeArgs[2][1] # likeArgs[2][2]
    /\ likeArgs[4][1] # likeArgs[4][2]
    /\ likeRet.quadC[1][2].var = 0
    /\ likeRet.quadC[1][2].k.d2 = 1

---------------------------------------------------------------------------
(***************************************************************************)
(* Properties of the posterior functions of both notebooks                 *)
(* (SpecPosteriors).  ln_likelihood is evaluated by the steps PmLikelihood *)
(* and GpLikelihood, which are taken from the states with pc "like".       *)
(***************************************************************************)
\* C18 as stated: in ProbModel.ln_posterior, ln_posterior and ln_posterior2
\* the prior is evaluated first and, when it is not finite, the function
\* returns without calling ln_likelihood.
C18_NoLikelihoodUnlessFinitePrior ==
    /\ pmPc = "like" => (lnp = pmPrior /\ np_isfinite(lnp))
    /\ gpPc = "like" => np_isfinite(lp)

\* C18, amended: the likelihood is never evaluated for a parameter vector
\* whose log-prior is infinite: the prior is evaluated first and the
\* function returns without calling ln_likelihood when the log-prior is
\* +inf or -inf (ProbModel.ln_posterior, which goes on to the likelihood
\* when the log-prior is NaN) or not finite (ln_posterior, ln_posterior2).
C18_NoLikelihoodOnInfinitePrior ==
    /\ [](/\ pmPc = "like" => (lnp = pmPrior /\ ~np_isinf(lnp))
          /\ gpPc = "like" => np_isfinite(lp))
    /\ [][/\ (pmPc = "prior" /\ np_isinf(pmPrior)) =>
                (pmPc' = "ret" /\ pmRet' = pmPrior)
          /\ (pmPc = "prior" /\ ~np_isinf(pmPrior)) => pmPc' = "like"
          /\ (gpPc = "prior" /\ ~np_isfinite(lp')) =>
                (gpPc' = "done" /\ gpRet' = NInf /\ ll' = NoVal)
          /\ (gpPc = "prior" /\ np_isfinite(lp')) => gpPc' = "like"]_vars

\* a call of the model object with an infinite prior is returning, the
\* likelihood of its data not evaluated
C18_Witness ==
    /\ nb = "marginalization"
    /\ pmPc = "ret"
    /\ lnp = PInf
    /\ pmRet = PInf
    /\ Len(pmLike) > 0

---------------------------------------------------------------------------
(***************************************************************************)
(* Properties of the light-curve cells (SpecClip).                         *)
(***************************************************************************)
\* the numbers of the table's rows that pass the finite-value filter and the
\* 5-sigma clip, in table order
Survivors ==
    Select([i \in 1..Len(table) |-> i],
           [i \in 1..Len(table) |->
               table[i].FLUX.k = "fin" /\ InClip(table[i].FLUX.v, stats)])

\* C10: after the filter, the clip and the trim, time, flux and flux_err
\* have the same length, min(512, number of rows that survive the clip),
\* and element i of each comes from the same row of the table.
SameRows(rows, n) ==
    /\ Len(time) = n /\ Len(flux) = n /\ Len(flux_err) = n
    /\ \A i \in 1..n :
          /\ flux[i] = table[rows[i]].FLUX.v
          /\ flux_err[i] = table[rows[i]].ERR
          /\ time[i] = table[rows[i]].TIME - table[rows[1]].TIME

C10_LengthsAgree ==
    lcPc \in {"clipped", "error"} =>
        SameRows(Survivors, IF Len(Survivors) < 512 THEN Len(Survivors) ELSE 512)

C10_Witness ==
    /\ lcPc = "clipped"
    /\ Len(Survivors) > 512
    /\ Len(Survivors) < Len(table)
    /\ Len(flux_err) = 512

\* C11: the loaded data are never mutated: no step changes the table read
\* from k2.fits, and once raw_time, raw_flux and raw_flux_err are assigned
\* (the filter cell) the statistics, clip, trim and time-shift steps leave
\* them as they are; time, flux and flux_err are arrays of their own.
C11_RawDataNotMutated ==
    [][/\ table' = table
       /\ lcPc # "loaded" =>
             /\ raw_time' = raw_time
             /\ raw_flux' = raw_flux
             /\ raw_flux_err' = raw_flux_err
             /\ data' = data]_vars

\* the time shift has acted on a clipped and trimmed copy
C11_Witness ==
    /\ lcPc = "clipped"
    /\ Len(time) = 512
    /\ Len(raw_time) > Len(time)
    /\ time[1] = 0
    /\ raw_time[1] > 0
    /\ \E i \in 1..Len(idx) : ~idx[i]

---------------------------------------------------------------------------
(***************************************************************************)
(* Properties of a session of calls (SpecSession).                         *)
(***************************************************************************)
\* the last call repeats the call that was kept
SameCallAgain ==
    /\ sesKept # <<>>
    /\ sesKept[4] >= 1
    /\ sesCall = <<sesKept[1], sesKept[2]>>

\* C12: the likelihood and posterior functions are pure: a call leaves the
\* stored data (model1's x, y, y_err; time, flux, flux_err) as they are,
\* and a call with the parameter vector of an earlier call of the same
\* function returns the value the earlier call returned, whatever calls were
\* made in between (a call that raises, as every call of model1 does while
\* Model1's methods return None, raises again the same way).
C12_CallsArePure ==
    /\ [](SameCallAgain => sesRet = sesKept[3])
    /\ [][sesCall' # sesCall =>
             /\ model1' = model1
             /\ time' = time /\ flux' = flux /\ flux_err' = flux_err]_vars

\* ln_likelihood is called again with the parameters of a kept call, after a
\* call with other parameters and on data that have values to change
C12_Witness ==
    /\ SameCallAgain
    /\ sesKept[5]
    /\ sesKept[1] = "ln_likelihood"
    /\ sesKept[2][1] # 0
    /\ Len(flux) = 2
    /\ sesRet = sesKept[3]

---------------------------------------------------------------------------
(***************************************************************************)
(* Properties of the sampling cells (SpecSampler).                         *)
(***************************************************************************)
\* the number of production steps the claim states for each notebook
StatedSteps == IF sampler.cfg.name \in {"model1", "model2"} THEN 4096 ELSE 256

\* C13: a sampling run is burn-in, then reset, then production, the
\* production run started from the positions the burn-in returned; at the
\* end the stored chain holds, for every walker, exactly the production
\* steps (4096 in the marginalization notebook, 256 in the Gaussian-process
\* notebook) and no burn-in sample.  (A burn-in whose log-probability
\* function raises stores nothing and ends the run.)
C13_BurnResetProduce ==
    /\ smpPc = "burned" =>
          /\ Len(sampler.chain) = 1
          /\ sampler.chain[1].phase = "burn-in"
          /\ sampler.chain[1].end = pos
    /\ smpPc = "reset" => Iterations(sampler.chain) = 0
    /\ smpPc = "error" => sampler.chain = <<>>
    /\ smpPc = "produced" =>
          /\ Iterations(sampler.chain) = StatedSteps
          /\ \A i \in 1..Len(sampler.chain) :
                /\ sampler.chain[i].phase = "production"
                /\ sampler.chain[i].start = pos

\* the second sampler of the Gaussian-process notebook, its production run
\* started where its own burn-in ended, not at the ball it was started from
C13_Witness ==
    /\ smpPc = "produced"
    /\ sampler.cfg.name = "gp2"
    /\ p0 # pos
    /\ sampler.chain[1].start = pos
    /\ Iterations(sampler.chain) = 256

---------------------------------------------------------------------------
(***************************************************************************)
(* Properties of the PCA cells (SpecPca).                                  *)
(***************************************************************************)
\* the number of eigenvalues larger than w[m]
LargerThan(w, m) == Cardinality({ k \in 1..Len(w) : w[k] > w[m] })

\* the eigenpair m may stand at place j (places count from 1) of the pairs
\* sorted by decreasing eigenvalue
RankedAt(w, m, j) ==
    /\ LargerThan(w, m) < j
    /\ Cardinality({ k \in 1..Len(w) : w[k] >= w[m] }) >= j

\* C14: after the sort-and-project cell, column j of Y is the projection of
\* the data onto the eigenvector with the (j+1)-th largest eigenvalue, so
\* column 0 belongs to the largest eigenvalue, in whatever order
\* np.linalg.eig returned the pairs.
C14_ProjectedBySortedEigen ==
    pcaPc \in {"projected", "cev"} =>
        \A j \in 1..Len(eig_vals) :
            \E m \in 1..Len(eig_vals) :
                /\ RankedAt(eig_vals, m, j)
                /\ \A n \in 1..Len(X) :
                      Y[n][j] = SumTo([i \in 1..Len(X[n]) |-> X[n][i] * eig_vecs[i][m]],
                                      Len(X[n]))

\* the sum of the k largest values of w
RECURSIVE SumLargest(_, _)
SumLargest(w, k) ==
    IF k = 0 THEN 0
    ELSE LET m == CHOOSE i \in 1..Len(w) : RankedAt(w, i, 1)
         IN  w[m] + SumLargest([i \in 1..(Len(w) - 1) |-> IF i < m THEN w[i] ELSE w[i + 1]],
                               k - 1)

\* C15: entry k of np.cumsum(eig_vals) / np.sum(eig_vals) is the fraction of
\* the total variance that the k+1 largest eigenvalues explain (eigenvector
\* k and all those with larger eigenvalues); entry 0 is the fraction of the
\* largest eigenvalue alone, in whatever order the eigenvalues were returned.
C15_CumulativeExplainedVariance ==
    pcaPc = "cev" =>
        /\ cev.den = SumTo(eig_vals, Len(eig_vals))
        /\ \A k \in 1..Len(eig_vals) : cev.num[k] = SumLargest(eig_vals, k)

---------------------------------------------------------------------------
(***************************************************************************)
(* Properties of the eigenfaces cells (SpecFaces).                         *)
(***************************************************************************)
\* the first n components together explain at least 95% of the variance
Preserves95(n) ==
    /\ n >= 1
    /\ n <= Len(pca.explained_variance_ratio_)
    /\ SumTo(pca.explained_variance_ratio_, n) >= Threshold

\* C16: the value of the argmin cell is the number of eigenfaces needed to
\* preserve 95% of the variance: the smallest count n of leading components
\* whose cumulative ratio is at least 0.95 (when the components kept reach
\* 0.95 at all).
C16_ArgminCountsComponents ==
    (facePc = "counted" /\ \E n \in 1..Len(pca.explained_variance_ratio_) : Preserves95(n)) =>
        /\ Preserves95(n95)
        /\ \A m \in 1..(n95 - 1) : ~Preserves95(m)

---------------------------------------------------------------------------
(***************************************************************************)
(* Properties of the outlier cells (SpecOutliers).                         *)
(***************************************************************************)
\* how many times row r is drawn by the two errorbar calls together
TimesPlotted(r) ==
    Cardinality({ k \in 1..Len(plotted.blue) : plotted.blue[k] = r })
        + Cardinality({ k \in 1..Len(plotted.red) : plotted.red[k] = r })

\* C19: every data point of case 2 is plotted exactly once: in the red
\* (outlier) group when its averaged inlier probability is strictly below
\* 0.5, in the other group otherwise, a probability of exactly 0.5
\* included.
C19_OutlierPartition ==
    outPc = "plotted" =>
        \A r \in 1..Len(tbl2) :
            /\ TimesPlotted(tbl2[r]) = 1
            /\ (\E k \in 1..Len(plotted.red) : plotted.red[k] = tbl2[r])
                  <=> 2 * post_prob[r] < ProbUnit

\* one point at exactly 0.5 drawn as an inlier, another below 0.5 drawn red
C19_Witness ==
    /\ outPc = "plotted"
    /\ Len(tbl2) = 2
    /\ post_prob = <<2, 1>>
    /\ plotted = [blue |-> <<1>>, red |-> <<2>>]

\* C20: the loop reads the flat-chain rows 0 .. K-1, K = 65536; the flat
\* chain of 32 walkers with 4096 production steps each has 131072 rows, so
\* every index is in range and K is exactly half the number of rows, the
\* value sampler.flatchain.shape[0]//2 displays.
C20_LoopWithinChain ==
    /\ outPc # "error"
    /\ outPc = "half" => half_shown = 65536
    /\ outPc \in {"averaged", "classified", "plotted"} =>
          /\ loop_i = 65536 - 1
          /\ loop_i < FlatChainRows(sampler)
          /\ FlatChainRows(sampler) = 131072
          /\ 2 * (loop_i + 1) = FlatChainRows(sampler)
          /\ half_shown = loop_i + 1

C20_Witness ==
    /\ outPc = "averaged"
    /\ Len(tbl2) > 0
    /\ loop_i = 65535
    /\ FlatChainRows(sampler) = 131072

---------------------------------------------------------------------------
(***************************************************************************)
(* Properties of the cells after the eigenfaces cells (SpecSky).           *)
(***************************************************************************)
\* the fit calls that bound the global name pca
GlobalFits == SelectSeq(fits, LAMBDA f : f.scope = "global")

\* C21: run top to bottom with the exercise cells unfilled, the pca whose
\* cumulative explained variance the SDSS section plots is the one bound
\* last before it, the 64-component PCA fitted on all_face_data; sdss_images
\* is loaded and passed to no fit.
C21_SdssPlotUsesFacesPca ==
    /\ pca.fit_on # "sdss_images"
    /\ \A k \in 1..Len(fits) : fits[k].fit_on # "sdss_images"
    /\ skyPc = "plotted" =>
          /\ sdss_images # ""
          /\ GlobalFits # <<>>
          /\ GlobalFits[Len(GlobalFits)] = FitCall(64, "all_face_data", "global")
          /\ pca.n_components = 64
          /\ pca.fit_on = "all_face_data"
          /\ sky_plot = CumSum(pca.explained_variance_ratio_)

\* the plot drawn after sdss_images was loaded, of a 64-component PCA whose
\* ratios differ from those displayed for the 256-component one
C21_Witness ==
    /\ skyPc = "plotted"
    /\ sdss_images = "sdss_images.npz:arr_0"
    /\ pca = PCA_fit(64, "all_face_data", <<12, 5>>)
    /\ sky_plot = <<12, 17>>
    /\ n95 = 2
    /\ Len(fits) = 5


===========================================================================
